---- MODULE Spec2Model ----
(***************************************************************************)
(* Model of src/src/mcp_bugbounty_agent/agent.py: the BugBountyResearchAgent *)
(* orchestrator, its access gate, its research modules, the bounty         *)
(* estimate, the Burp payload generator and save_session.                  *)
(*                                                                         *)
(* Text is modelled as a sequence of one-character strings wherever the    *)
(* code inspects or builds it (api keys, targets, Burp payloads); fixed    *)
(* literals nobody inspects are kept as TLA+ strings.                      *)
(***************************************************************************)
EXTENDS Integers, Sequences, FiniteSets, TLC

VARIABLES
    api_key,          \* self.api_key: [some |-> BOOLEAN, s |-> text]
    premium,          \* self.premium
    use_docker,       \* self.use_docker
    session_id,       \* self.session_id
    docker_env,       \* self.docker_env and the DockerTestEnvironment's fields
    session_log,      \* self.session_log
    files,            \* the files save_session has written: filename -> text
    now,              \* logical clock behind datetime.now()
    ret,              \* the last operation, its arguments and what it returned
    calls,            \* number of orchestrate_research calls made so far
    streak,           \* validate_premium_access calls since the last other operation
    docker_requested, \* the use_docker argument of the constructor
    init_result,      \* what initialize_environment returned to the constructor
    tools,            \* self.tools: the four MCPToolWrapper objects
    lookups,          \* per adapter, when its latest lookup started
    scope,            \* the caller's position relative to a with-block on the agent
    run               \* the orchestrate_research call in progress, stage by stage

vars == <<api_key, premium, use_docker, session_id, docker_env, session_log,
          files, now, ret, calls, streak, docker_requested, init_result,
          tools, lookups, scope, run>>

----------------------------------------------------------------------------
(* Bounds *)

MaxCalls == 4        \* orchestrate_research calls explored per session
MaxStreak == 10      \* consecutive validate_premium_access calls counted
MaxTypes == 3        \* longest category list of the single-call specification
MaxParamLen == 2     \* longest generated Burp parameter name
MaxTime == 2         \* seconds of wall-clock time explored around adapter calls
MaxFindings == 3     \* longest list of Findings priced directly
MaxDenied == 2       \* calls explored after the free-tier quota is used up
MaxStagedCalls == 2  \* orchestrate_research calls explored stage by stage or
                     \* interleaved with every other operation on either tier

----------------------------------------------------------------------------
(* Text helpers *)

StartsWith(s, p) == Len(s) >= Len(p) /\ SubSeq(s, 1, Len(p)) = p

Contains(s, p) ==
    \E i \in 0..(Len(s) - Len(p)) : SubSeq(s, i + 1, i + Len(p)) = p

SeqsUpTo(S, n) == UNION {[1..k -> S] : k \in 0..n}

LowerChar(c) ==
    CASE c = "T" -> "t"
      [] c = "N" -> "n"
      [] c = "H" -> "h"
      [] OTHER -> c

Lower(s) == [i \in 1..Len(s) |-> LowerChar(s[i])]

----------------------------------------------------------------------------
(* Access gate *)

FreeLimit == 3

NoKey == [some |-> FALSE, s |-> <<>>]
Key(s) == [some |-> TRUE, s |-> s]

bb_ == <<"b", "b", "_">>
bb_prod_ == <<"b", "b", "_", "p", "r", "o", "d", "_">>
bb_test_ == <<"b", "b", "_", "t", "e", "s", "t", "_">>
demo_premium_key ==
    <<"d", "e", "m", "o", "-", "p", "r", "e", "m", "i", "u", "m", "-", "k", "e", "y">>

ApiKeys ==
    { NoKey,
      Key(demo_premium_key),
      Key(bb_prod_ \o <<"1">>),
      Key(bb_test_ \o <<"1">>),
      Key(bb_ \o <<"l", "i", "v", "e", "_", "1">>),
      Key(<<"t", "e", "s", "t", "-", "k", "e", "y">>) }

\* mutant: only production keys are accepted
validate_api_key_with_stripe_prod_only(key) ==
    IF StartsWith(key, bb_prod_) THEN TRUE ELSE FALSE

validate_api_key_with_stripe(key) ==
    IF StartsWith(key, bb_prod_) THEN TRUE
    ELSE IF StartsWith(key, bb_test_) THEN TRUE
    ELSE FALSE

\* mutant: the free-tier comparison is off by one
validate_premium_access_off_by_one(prem, key, log) ==
    IF ~prem THEN Len(log) <= FreeLimit
    ELSE IF key.some /\ key.s # <<>> /\ StartsWith(key.s, bb_)
         THEN validate_api_key_with_stripe(key.s)
    ELSE IF key = Key(demo_premium_key) THEN TRUE
    ELSE TRUE

\* mutant: the development fallback rejects
validate_premium_access_strict_fallback(prem, key, log) ==
    IF ~prem THEN Len(log) < FreeLimit
    ELSE IF key.some /\ key.s # <<>> /\ StartsWith(key.s, bb_)
         THEN validate_api_key_with_stripe(key.s)
    ELSE IF key = Key(demo_premium_key) THEN TRUE
    ELSE FALSE

validate_premium_access(prem, key, log) ==
    IF ~prem THEN Len(log) < FreeLimit
    ELSE IF key.some /\ key.s # <<>> /\ StartsWith(key.s, bb_)
         THEN validate_api_key_with_stripe(key.s)
    ELSE IF key = Key(demo_premium_key) THEN TRUE
    ELSE TRUE

----------------------------------------------------------------------------
(* Sandbox helper: DockerTestEnvironment *)

InitFaults == {"none", "from_env", "pull", "create", "start", "setup"}

NoDockerEnv == [exists |-> FALSE, client |-> FALSE, container |-> "None"]

\* mutant: a failing container start is not noticed
initialize_environment_start_unchecked(fault) ==
    CASE fault = "from_env" ->
           [env |-> [exists |-> TRUE, client |-> FALSE, container |-> "None"], ok |-> FALSE]
      [] fault \in {"pull", "create"} ->
           [env |-> [exists |-> TRUE, client |-> TRUE, container |-> "None"], ok |-> FALSE]
      [] OTHER ->
           [env |-> [exists |-> TRUE, client |-> TRUE, container |-> "running"], ok |-> TRUE]

\* The environment after initialize_environment, and what it returned.
\* A failing setup command is caught inside _setup_container_tools.
initialize_environment(fault) ==
    CASE fault = "from_env" ->
           [env |-> [exists |-> TRUE, client |-> FALSE, container |-> "None"], ok |-> FALSE]
      [] fault \in {"pull", "create"} ->
           [env |-> [exists |-> TRUE, client |-> TRUE, container |-> "None"], ok |-> FALSE]
      [] fault = "start" ->
           [env |-> [exists |-> TRUE, client |-> TRUE, container |-> "created"], ok |-> FALSE]
      [] OTHER ->
           [env |-> [exists |-> TRUE, client |-> TRUE, container |-> "running"], ok |-> TRUE]

\* __init__: the docker_env field
InitDockerEnv(requested, fault) ==
    IF requested THEN initialize_environment(fault).env ELSE NoDockerEnv

\* mutant: a failed initialization leaves the flag set
InitUseDocker_flag_kept(requested, fault) == requested

\* __init__: the use_docker field
InitUseDocker(requested, fault) ==
    IF requested /\ ~initialize_environment(fault).ok THEN FALSE ELSE requested

\* __init__: the outcome of the initialize_environment call it makes, if any
InitResult(requested, fault) ==
    IF ~requested THEN "not_run"
    ELSE IF initialize_environment(fault).ok THEN "ok" ELSE "failed"

ExecOutcomes == {"exit0", "exit1", "raised"}

\* the steps inside the try block of execute_test that can raise: writing the
\* temporary file, put_archive, exec_run, os.unlink, output.decode
ExecRaises ==
    {"tempfile_raised", "stage_raised", "run_raised", "unlink_raised", "decode_raised"}
ExecFaults == {"exit0", "exit1"} \cup ExecRaises

\* what a run can end in: only a started container runs a script
PossibleFaults(env) == IF env.container = "running" THEN ExecFaults ELSE ExecRaises

\* the calls execute_test makes on the container, in order
runtime_ops(env, outcome) ==
    IF env.container = "None" \/ outcome = "tempfile_raised" THEN <<>>
    ELSE IF outcome = "stage_raised" THEN <<"put_archive">>
    ELSE <<"put_archive", "exec_run">>

\* how many of the temporary files execute_test created (delete=False) can
\* still be on the host when it returns: os.unlink is the statement after
\* exec_run inside the try block, so a raise before it skips the deletion
temp_files_left(env, outcome) ==
    IF env.container = "None" THEN {0}
    ELSE CASE outcome = "tempfile_raised" -> {0, 1}
           [] outcome \in {"stage_raised", "run_raised"} -> {1}
           [] outcome = "unlink_raised" -> {0, 1}
           [] OTHER -> {0}

\* the same for the runs of the sandbox stage
PossibleOutcomes(env) == IF env.container = "running" THEN ExecOutcomes ELSE {"raised"}

\* mutant: execute_test without its except clause
execute_test_unguarded(env, test_name, outcome) ==
    IF env.container = "None" THEN [error |-> "Container not initialized"]
    ELSE CASE outcome \in ExecRaises \cup {"raised"} -> [exception |-> outcome]
           [] outcome = "exit0" -> [exit_code |-> 0, output |-> "ok", test_name |-> test_name]
           [] OTHER -> [exit_code |-> 1, output |-> "failed", test_name |-> test_name]

\* execute_test: the record returned for one run of a script
execute_test(env, test_name, outcome) ==
    IF env.container = "None" THEN [error |-> "Container not initialized"]
    ELSE CASE outcome \in ExecRaises \cup {"raised"} -> [error |-> "exception"]
           [] outcome = "exit0" -> [exit_code |-> 0, output |-> "ok", test_name |-> test_name]
           [] OTHER -> [exit_code |-> 1, output |-> "failed", test_name |-> test_name]

\* what container.stop() and container.remove() can do
CallOutcomes == {"ok", "raises"}

\* a container that is already removed cannot be stopped again
StopOutcomes(env) == IF env.container = "removed" THEN {"raises"} ELSE CallOutcomes

\* DockerTestEnvironment.cleanup: stop and remove inside one try with a bare
\* except; the handle is kept
cleanup(env, stop_out, remove_out) ==
    IF env.container = "None"
    THEN [env |-> env, stop_called |-> FALSE, remove_called |-> FALSE, raised |-> FALSE]
    ELSE IF stop_out = "raises"
    THEN [env |-> env, stop_called |-> TRUE, remove_called |-> FALSE, raised |-> FALSE]
    ELSE IF remove_out = "raises"
    THEN [env |-> [env EXCEPT !.container = "stopped"],
          stop_called |-> TRUE, remove_called |-> TRUE, raised |-> FALSE]
    ELSE [env |-> [env EXCEPT !.container = "removed"],
          stop_called |-> TRUE, remove_called |-> TRUE, raised |-> FALSE]

\* BugBountyResearchAgent.cleanup: releases the sandbox if there is one
agent_cleanup(env, stop_out, remove_out) ==
    IF env.exists THEN cleanup(env, stop_out, remove_out)
    ELSE [env |-> env, stop_called |-> FALSE, remove_called |-> FALSE, raised |-> FALSE]

----------------------------------------------------------------------------
(* Tool Adapter: MCPToolWrapper._generate_mock_response *)

\* What the single live request of an adapter call can come back with.
\* "fail" stands for an exception, a timeout or a non-200 status.
Repo(name, stars) == [name |-> name, stars |-> stars, description |-> "live repository"]

Offline == [perplexity |-> "fail", github |-> [ok |-> FALSE, items |-> <<>>]]
Networks ==
    { Offline,
      [perplexity |-> "abstract",
       github |-> [ok |-> TRUE,
                   items |-> <<Repo("r50", 50), Repo("r51", 51),
                               Repo("r200", 200), Repo("r999", 999)>>]],
      [perplexity |-> "no_abstract", github |-> [ok |-> TRUE, items |-> <<>>]] }

\* the ways a live request fails: requests.get raises, the 5 second timeout
\* expires, or the response has a status other than 200
Failures == {"raised", "timeout", "non200"}
FailingNetworks ==
    { [perplexity |-> f, github |-> [ok |-> FALSE, items |-> <<>>, fault |-> f]] :
        f \in Failures }

\* whether the live request of this capability ends in an exception
RequestRaises(tool_name, net) ==
    CASE tool_name = "perplexity" -> net.perplexity \in {"raised", "timeout"}
      [] tool_name = "github_search" ->
           "fault" \in DOMAIN net.github /\ net.github.fault \in {"raised", "timeout"}
      [] OTHER -> FALSE

\* the number of requests.get calls one lookup makes
LiveRequests(tool_name) ==
    IF tool_name \in {"perplexity", "github_search"} THEN 1 ELSE 0

Take(s, n) == SubSeq(s, 1, IF Len(s) < n THEN Len(s) ELSE n)

\* MCPToolWrapper.__init__
MCPToolWrapper(tool_name, endpoint) ==
    [tool_name |-> tool_name, endpoint |-> endpoint, rate_limiter |-> <<>>]

\* __init__: self.tools
InitTools ==
    [k \in {"perplexity", "github", "brave", "context7"} |->
        CASE k = "perplexity" -> MCPToolWrapper("perplexity", "mcp://perplexity/ask")
          [] k = "github" -> MCPToolWrapper("github_search", "mcp://github/search")
          [] k = "brave" -> MCPToolWrapper("brave_search", "mcp://brave/search")
          [] k = "context7" -> MCPToolWrapper("context7", "mcp://context7/docs")]

\* the adapters _recon_layer calls
ReconTools == {"perplexity", "github", "brave"}

\* the lookup history after the adapters in ks started a lookup at time t
Looked(hist, ks, t) ==
    [k \in DOMAIN hist \cup ks |-> IF k \in ks THEN t ELSE hist[k]]

GuardedLookup(tool_name, params, net) ==
    CASE tool_name = "perplexity" ->
           IF net.perplexity = "abstract"
           THEN [response |-> <<"Research on ", params.query, ": ", "abstract">>,
                 sources |-> <<"AbstractURL">>,
                 confidence |-> 75,
                 api_source |-> "duckduckgo"]
           ELSE [response |-> <<"Latest research on ", params.query, ": IDOR vulnerabilities remain prevalent in 2025">>,
                 sources |-> <<"security-research.ai", "bugbounty-trends.com">>,
                 confidence |-> 85,
                 api_source |-> "mock_enhanced"]
      [] tool_name = "github_search" ->
           IF net.github.ok
           THEN [repositories |-> Take(net.github.items, 3),
                 total_count |-> Len(net.github.items),
                 api_source |-> "github_public"]
           ELSE [repositories |->
                    << [name |-> "crypto-idor-scanner", stars |-> 234,
                        description |-> "IDOR detection for crypto APIs"],
                       [name |-> "nicehash-tools", stars |-> 89,
                        description |-> "NiceHash security testing utilities"],
                       [name |-> "ai-bugbounty-tools", stars |-> 156,
                        description |-> "AI-powered vulnerability discovery"] >>,
                 total_count |-> 45,
                 api_source |-> "mock_enhanced"]
      [] tool_name = "brave_search" ->
           [results |-> << [title |-> <<params.query, " Programs and Platforms">>,
                            url |-> <<"https://example-platform.com/search?q=", params.query>>,
                            snippet |-> <<"Latest ", params.query, " opportunities and security research">>] >>,
            api_source |-> "simulated_search"]
      [] OTHER ->
           [status |-> "mock_response", data |-> params, api_source |-> "fallback"]

\* the lookup without its try/except: the exception of the live request escapes
generate_mock_response_unguarded(tool_name, params, net) ==
    IF RequestRaises(tool_name, net)
    THEN [exception |-> "RequestException"]
    ELSE GuardedLookup(tool_name, params, net)

\* the try block around the live request, then the canned responses
generate_mock_response(tool_name, params, net) ==
    GuardedLookup(tool_name, params, net)

\* time.time(), in whole seconds, at model time t
Epoch == 1700000000
time_time(t) == Epoch + t

\* MCPToolWrapper.call at model time t: the wait, then the lookup;
\* rate_limiter is read and never written
call(tool, params, net, t) ==
    LET last_call == IF tool.tool_name \in DOMAIN tool.rate_limiter
                     THEN tool.rate_limiter[tool.tool_name] ELSE 0
        wait == IF time_time(t) - last_call < 2
                THEN 2 - (time_time(t) - last_call) ELSE 0
        value == generate_mock_response(tool.tool_name, params, net)
    IN  [started |-> t + wait,
         tool |-> tool,
         raised |-> "exception" \in DOMAIN value,
         requests |-> LiveRequests(tool.tool_name),
         value |-> value]

\* L1: the three adapter calls, joined
recon_layer(target, vuln_types, net) ==
    [threat_intel |->
        generate_mock_response("perplexity",
            [query |-> <<target, vuln_types, " vulnerabilities 2025 bug bounty">>,
             max_tokens |-> 1000], net),
     tools_available |->
        generate_mock_response("github_search",
            [q |-> <<target, " security testing ", vuln_types>>,
             sort |-> "stars", per_page |-> 10], net),
     public_intel |->
        generate_mock_response("brave_search",
            [query |-> <<target, " bug bounty program API security">>,
             count |-> 5], net)]

----------------------------------------------------------------------------
(* Research modules (spokes) *)

VulnerabilityIntel(title, description, severity, poc_template, confidence, sources, timestamp) ==
    [title |-> title, description |-> description, severity |-> severity,
     poc_template |-> poc_template, confidence |-> confidence,
     sources |-> sources, timestamp |-> timestamp]

idor_research_module(recon_data, t) ==
    [vulnerabilities |->
        << VulnerabilityIntel("Sequential Organization ID Enumeration",
              "Test /api/v2/organizations/{org_id}/wallets with sequential IDs 1-1000",
              "HIGH",
              "for i in range(1,1001): test_endpoint(...) # Burp Suite Payload: intruder_payload(idor, organization_id)",
              78,
              <<"perplexity_2025_trends", "github_nicehash_tools">>,
              t) >>,
     attack_vectors |->
        << "Direct parameter manipulation in API endpoints",
           "Path traversal + IDOR chaining for file access",
           "UUID enumeration with predictable patterns" >>]

auth_bypass_module(recon_data, t) ==
    [vulnerabilities |->
        << VulnerabilityIntel("2FA Race Condition Bypass",
              "Concurrent requests to /api/v2/auth/2fa/verify may bypass verification",
              "CRITICAL",
              "send_concurrent_requests('/api/v2/auth/2fa/verify', count=50)",
              65,
              <<"perplexity_race_conditions", "github_auth_tools">>,
              t) >>,
     attack_vectors |->
        << "Session management vulnerabilities",
           "OTP validation race conditions",
           "Token replay attacks" >>]

business_logic_module(recon_data, t) ==
    [vulnerabilities |->
        << VulnerabilityIntel("Mining Profitability Manipulation",
              "Test negative values and edge cases in mining order calculations",
              "MEDIUM",
              "test_mining_orders(amount=-100, algorithm='scrypt')",
              45,
              <<"github_crypto_tools", "perplexity_business_logic">>,
              t) >>,
     attack_vectors |->
        << "Financial calculation edge cases",
           "Discount code abuse patterns",
           "Order manipulation vulnerabilities" >>]

crypto_specific_module(recon_data, t) ==
    [vulnerabilities |->
        << VulnerabilityIntel("Wallet Balance Disclosure",
              "Test unauthorized access to wallet balance endpoints",
              "HIGH",
              "test_wallet_endpoints(wallet_ids=['admin','test','1','2'])",
              72,
              <<"perplexity_crypto_vulns", "github_wallet_tools">>,
              t) >>,
     attack_vectors |->
        << "Cross-wallet data access",
           "Mining rig enumeration",
           "Payment flow manipulation" >>]

\* self.research_modules: the keys, and the dispatch
ModuleNames == {"idor", "auth_bypass", "business_logic", "crypto_specific"}

research_modules(name, recon_data, t) ==
    CASE name = "idor" -> idor_research_module(recon_data, t)
      [] name = "auth_bypass" -> auth_bypass_module(recon_data, t)
      [] name = "business_logic" -> business_logic_module(recon_data, t)
      [] name = "crypto_specific" -> crypto_specific_module(recon_data, t)

----------------------------------------------------------------------------
(* L2: analysis *)

RECURSIVE RunModules_prepend(_, _, _, _)
\* mutant: a module's findings are put in front of the earlier ones
RunModules_prepend(vuln_types, recon_data, t, acc) ==
    IF vuln_types = <<>> THEN acc
    ELSE LET vuln_type == Head(vuln_types)
             next == IF vuln_type \in ModuleNames
                     THEN LET module_result == research_modules(vuln_type, recon_data, t)
                          IN  [acc EXCEPT
                                 !.vulnerabilities = module_result.vulnerabilities \o @,
                                 !.attack_vectors = module_result.attack_vectors \o @]
                     ELSE acc
         IN  RunModules_prepend(Tail(vuln_types), recon_data, t, next)

RECURSIVE RunModules(_, _, _, _)
\* the loop over vuln_types in _analysis_layer; acc is analysis_results
RunModules(vuln_types, recon_data, t, acc) ==
    IF vuln_types = <<>> THEN acc
    ELSE LET vuln_type == Head(vuln_types)
             next == IF vuln_type \in ModuleNames
                     THEN LET module_result == research_modules(vuln_type, recon_data, t)
                          IN  [acc EXCEPT
                                 !.vulnerabilities = @ \o module_result.vulnerabilities,
                                 !.attack_vectors = @ \o module_result.attack_vectors]
                     ELSE acc
         IN  RunModules(Tail(vuln_types), recon_data, t, next)

RECURSIVE RecommendTools_from_fifty(_, _)
\* mutant: the threshold admits a repository with exactly 50 stars
RecommendTools_from_fifty(repos, acc) ==
    IF repos = <<>> THEN acc
    ELSE LET repo == Head(repos)
             next == IF repo.stars >= 50
                     THEN Append(acc, [name |-> repo.name,
                                       description |-> repo.description,
                                       stars |-> repo.stars,
                                       relevance |-> IF repo.stars > 200 THEN "high" ELSE "medium"])
                     ELSE acc
         IN  RecommendTools_from_fifty(Tail(repos), next)

RECURSIVE RecommendTools(_, _)
\* the loop over the code-host repositories in _analysis_layer
RecommendTools(repos, acc) ==
    IF repos = <<>> THEN acc
    ELSE LET repo == Head(repos)
             next == IF repo.stars > 50
                     THEN Append(acc, [name |-> repo.name,
                                       description |-> repo.description,
                                       stars |-> repo.stars,
                                       relevance |-> IF repo.stars > 200 THEN "high" ELSE "medium"])
                     ELSE acc
         IN  RecommendTools(Tail(repos), next)

analysis_layer(recon_data, vuln_types, t) ==
    LET analysis_results == [vulnerabilities |-> <<>>,
                             attack_vectors |-> <<>>,
                             tools_recommended |-> <<>>,
                             confidence_scores |-> <<>>]
        after_modules == RunModules(vuln_types, recon_data, t, analysis_results)
        github_data == recon_data.tools_available
    IN  [after_modules EXCEPT
            !.tools_recommended = RecommendTools(github_data.repositories, @)]

----------------------------------------------------------------------------
(* Bounty estimate *)

\* mutant: an unlisted severity is priced like LOW
estimate_single_bounty_low_default(vuln) ==
    CASE vuln.severity = "CRITICAL" -> 8000
      [] vuln.severity = "HIGH" -> 3000
      [] vuln.severity = "MEDIUM" -> 800
      [] OTHER -> 200

estimate_single_bounty(vuln) ==
    CASE vuln.severity = "CRITICAL" -> 8000
      [] vuln.severity = "HIGH" -> 3000
      [] vuln.severity = "MEDIUM" -> 800
      [] vuln.severity = "LOW" -> 200
      [] OTHER -> 500

\* f"${int(x)}" for a non-negative amount
Dollar(n) == <<"$", n>>

RECURSIVE SumBounty(_, _)
\* the loop of _estimate_bounty_potential; totals are kept in tenths,
\* the factors 0.7/1.5, 0.5/1.2, 0.3/0.8 being 7/15, 5/12, 3/8 tenths
SumBounty(vulns, acc) ==
    IF vulns = <<>> THEN acc
    ELSE LET vuln == Head(vulns)
             bounty == estimate_single_bounty(vuln)
             next == CASE vuln.severity = "CRITICAL" ->
                            [total_min |-> acc.total_min + bounty * 7,
                             total_max |-> acc.total_max + bounty * 15]
                       [] vuln.severity = "HIGH" ->
                            [total_min |-> acc.total_min + bounty * 5,
                             total_max |-> acc.total_max + bounty * 12]
                       [] OTHER ->
                            [total_min |-> acc.total_min + bounty * 3,
                             total_max |-> acc.total_max + bounty * 8]
         IN  SumBounty(Tail(vulns), next)

\* mutant: the confidence test counts from zero
estimate_bounty_potential_confident(analysis_data) ==
    LET vulnerabilities == analysis_data.vulnerabilities
        totals == SumBounty(vulnerabilities, [total_min |-> 0, total_max |-> 0])
    IN  [min |-> Dollar(totals.total_min \div 10),
         max |-> Dollar(totals.total_max \div 10),
         confidence |-> IF Len(vulnerabilities) >= 0 THEN "medium" ELSE "low"]

estimate_bounty_potential(analysis_data) ==
    LET vulnerabilities == analysis_data.vulnerabilities
    IN  IF vulnerabilities = <<>>
        THEN [min |-> Dollar(0), max |-> Dollar(0), confidence |-> "low"]
        ELSE LET totals == SumBounty(vulnerabilities, [total_min |-> 0, total_max |-> 0])
             IN  [min |-> Dollar(totals.total_min \div 10),
                  max |-> Dollar(totals.total_max \div 10),
                  confidence |-> IF Len(vulnerabilities) > 2 THEN "medium" ELSE "low"]

----------------------------------------------------------------------------
(* L3: execution plan and sandbox testing *)

IsHighOrCritical(vuln) == vuln.severity \in {"HIGH", "CRITICAL"}

RECURSIVE TestingPhases_all_severities(_, _)
\* mutant: a testing phase for every Finding
TestingPhases_all_severities(vulns, acc) ==
    IF vulns = <<>> THEN acc
    ELSE LET vuln == Head(vulns)
             next == Append(acc, [phase |-> <<"Test ", vuln.title>>,
                                  method |-> vuln.poc_template,
                                  expected_outcome |->
                                      <<"Potential $", estimate_single_bounty(vuln), " bounty">>,
                                  automation_possible |-> TRUE])
         IN  TestingPhases_all_severities(Tail(vulns), next)

RECURSIVE TestingPhases(_, _)
TestingPhases(vulns, acc) ==
    IF vulns = <<>> THEN acc
    ELSE LET vuln == Head(vulns)
             next == IF IsHighOrCritical(vuln)
                     THEN Append(acc, [phase |-> <<"Test ", vuln.title>>,
                                       method |-> vuln.poc_template,
                                       expected_outcome |->
                                           <<"Potential $", estimate_single_bounty(vuln), " bounty">>,
                                       automation_possible |-> TRUE])
                     ELSE acc
         IN  TestingPhases(Tail(vulns), next)

execution_layer(analysis_data, target) ==
    [testing_phases |-> TestingPhases(analysis_data.vulnerabilities, <<>>),
     estimated_time |-> "4-6 hours",
     automation_scripts |->
        << Lower(target) \o <<"_idor_scanner.py">>,
           Lower(target) \o <<"_auth_bypass_tester.py">>,
           Lower(target) \o <<"_business_logic_fuzzer.py">> >>,
     reporting_templates |-> <<>>]

RECURSIVE DockerTests_counts_confirmed(_, _, _, _)
\* mutant: a run that is not confirmed is not counted
DockerTests_counts_confirmed(vulns, env, outs, acc) ==
    IF vulns = <<>> THEN acc
    ELSE LET vuln == Head(vulns)
         IN  IF IsHighOrCritical(vuln)
             THEN LET test_result == execute_test(env, <<"test_", vuln.title>>, Head(outs))
                      executed == [acc EXCEPT !.tests_executed = @ + 1]
                      next == IF "exit_code" \in DOMAIN test_result /\ test_result.exit_code = 0
                              THEN [executed EXCEPT !.vulnerabilities_confirmed =
                                       Append(@, [vulnerability |-> vuln.title,
                                                  test_output |-> test_result.output,
                                                  confidence |-> "high"])]
                              ELSE acc
                  IN  DockerTests_counts_confirmed(Tail(vulns), env, Tail(outs), next)
             ELSE DockerTests_counts_confirmed(Tail(vulns), env, outs, acc)

RECURSIVE DockerTests(_, _, _, _)
\* the loop of _docker_testing_layer; outs are the outcomes of the runs still to come
DockerTests(vulns, env, outs, acc) ==
    IF vulns = <<>> THEN acc
    ELSE LET vuln == Head(vulns)
         IN  IF IsHighOrCritical(vuln)
             THEN LET test_result == execute_test(env, <<"test_", vuln.title>>, Head(outs))
                      executed == [acc EXCEPT !.tests_executed = @ + 1]
                      next == IF "exit_code" \in DOMAIN test_result /\ test_result.exit_code = 0
                              THEN [executed EXCEPT !.vulnerabilities_confirmed =
                                       Append(@, [vulnerability |-> vuln.title,
                                                  test_output |-> test_result.output,
                                                  confidence |-> "high"])]
                              ELSE executed
                  IN  DockerTests(Tail(vulns), env, Tail(outs), next)
             ELSE DockerTests(Tail(vulns), env, outs, acc)

docker_testing_layer(analysis_data, target, use, env, outs) ==
    IF ~use \/ ~env.exists
    THEN [error |-> "Docker environment not available"]
    ELSE LET docker_results == DockerTests(analysis_data.vulnerabilities, env, outs,
                                   [containers_created |-> 0,
                                    tests_executed |-> 0,
                                    vulnerabilities_confirmed |-> <<>>,
                                    testing_environments |-> <<>>])
         IN  [docker_results EXCEPT
                !.containers_created = 1,
                !.testing_environments =
                    Append(@, [type |-> "Kali Linux",
                               tools |-> <<"nmap", "sqlmap", "gobuster", "custom_scripts">>,
                               isolation_level |-> "full_container"])]

----------------------------------------------------------------------------
(* The orchestrator *)

AccessDenied == [error |-> "Premium access required for full research"]

\* research_results.update({...}): b's keys override a's
Update(a, b) ==
    [k \in DOMAIN a \cup DOMAIN b |-> IF k \in DOMAIN b THEN b[k] ELSE a[k]]

\* mutant: the target is normalised before it is recorded
ResultFields_lowercased(sid, target, t, recon_data, analysis_data) ==
    [session_id |-> sid,
     target |-> Lower(target),
     timestamp |-> t,
     recon_data |-> recon_data,
     analysis_data |-> analysis_data,
     vulnerability_count |-> Len(analysis_data.vulnerabilities),
     estimated_bounty_range |-> estimate_bounty_potential(analysis_data)]

\* the fields every granted call sets with research_results.update({...})
ResultFields(sid, target, t, recon_data, analysis_data) ==
    [session_id |-> sid,
     target |-> target,
     timestamp |-> t,
     recon_data |-> recon_data,
     analysis_data |-> analysis_data,
     vulnerability_count |-> Len(analysis_data.vulnerabilities),
     estimated_bounty_range |-> estimate_bounty_potential(analysis_data)]

\* number of sandbox runs a call with these findings makes
RunsNeeded(prem, use, env, analysis_data) ==
    IF prem /\ use /\ env.exists
    THEN Len(SelectSeq(analysis_data.vulnerabilities, IsHighOrCritical))
    ELSE 0

\* mutant: the execution plan is attached on either tier
orchestrate_research_plan_for_all(prem, use, env, sid, t, target, vuln_types, net, outs) ==
    LET recon_data == recon_layer(target, vuln_types, net)
        analysis_data == analysis_layer(recon_data, vuln_types, t)
        with_plan == [execution_plan |-> execution_layer(analysis_data, target)]
        research_results ==
            IF prem /\ use /\ env.exists
            THEN Update(with_plan,
                        [docker_testing |->
                            docker_testing_layer(analysis_data, target, use, env, outs)])
            ELSE with_plan
    IN  Update(research_results,
               ResultFields(sid, target, t, recon_data, analysis_data))

\* the record a granted call builds
orchestrate_research(prem, use, env, sid, t, target, vuln_types, net, outs) ==
    LET recon_data == recon_layer(target, vuln_types, net)
        analysis_data == analysis_layer(recon_data, vuln_types, t)
        with_plan == IF prem
                     THEN [execution_plan |-> execution_layer(analysis_data, target)]
                     ELSE <<>>
        research_results ==
            IF prem /\ use /\ env.exists
            THEN Update(with_plan,
                        [docker_testing |->
                            docker_testing_layer(analysis_data, target, use, env, outs)])
            ELSE with_plan
    IN  Update(research_results,
               ResultFields(sid, target, t, recon_data, analysis_data))

----------------------------------------------------------------------------
(* save_session *)

NoFilename == [given |-> FALSE, name |-> <<>>]
Filename(name) == [given |-> TRUE, name |-> name]

\* the filename argument: absent, the empty string, a path
FilenameArgs == {NoFilename, Filename(<<>>), Filename(<<"test_session.json">>)}

DefaultFilename(sid) == <<"bugbounty_research_", sid, ".json">>

\* default=str: a Finding is written as its string form, a JSON string
JsonFinding(vuln) == [str |-> vuln]

\* one result record as the JSON object json.dump writes for it
JsonRecord(r) ==
    IF "analysis_data" \in DOMAIN r
    THEN [r EXCEPT !["analysis_data"] =
             [@ EXCEPT !.vulnerabilities =
                 [i \in 1..Len(@) |-> JsonFinding(@[i])]]]
    ELSE r

Tok(t) == [tok |-> t, val |-> <<>>]
Obj(r) == [tok |-> "object", val |-> r]

RECURSIVE JsonItems(_)
JsonItems(log) ==
    IF log = <<>> THEN <<>>
    ELSE IF Len(log) = 1 THEN <<Obj(JsonRecord(log[1]))>>
    ELSE <<Obj(JsonRecord(Head(log))), Tok(",")>> \o JsonItems(Tail(log))

\* mutant: only the latest record is written
json_dump_latest_only(log) ==
    <<Tok("[")>> \o JsonItems(IF log = <<>> THEN <<>> ELSE <<log[Len(log)]>>) \o <<Tok("]")>>

\* json.dump(self.session_log, f, indent=2, default=str): the text written
json_dump(log) == <<Tok("[")>> \o JsonItems(log) \o <<Tok("]")>>

RECURSIVE JsonElements(_)
JsonElements(toks) ==
    IF toks = <<>> THEN <<>>
    ELSE IF Head(toks).tok = "object"
         THEN <<Head(toks).val>> \o JsonElements(Tail(toks))
         ELSE JsonElements(Tail(toks))

\* json.load of a file holding one array
json_load(text) ==
    IF Len(text) >= 2 /\ Head(text) = Tok("[") /\ text[Len(text)] = Tok("]")
    THEN JsonElements(SubSeq(text, 2, Len(text) - 1))
    ELSE <<>>

\* the name save_session writes to and returns
save_session(arg, sid) ==
    IF ~arg.given \/ arg.name = <<>> THEN DefaultFilename(sid) ELSE arg.name

\* open(filename, 'w') followed by the dump
WriteFile(fs, name, text) ==
    [n \in DOMAIN fs \cup {name} |-> IF n = name THEN text ELSE fs[n]]

----------------------------------------------------------------------------
(* Burp payload generator: the literal text of _generate_burp_payloads,     *)
(* character by character ("sect" is the section sign)                      *)

IdorIntruderHead ==
    << "\n", "#", " ", "B", "u", "r", "p", " ", "S", "u", "i", "t", "e", " ", "I", "n", "t", "r",
       "u", "d", "e", "r", " ", "C", "o", "n", "f", "i", "g", "u", "r", "a", "t", "i", "o", "n",
       "\n", "#", " ", "T", "a", "r", "g", "e", "t", ":", " ", "/", "a", "p", "i", "/", "v", "2",
       "/", "o", "r", "g", "a", "n", "i", "z", "a", "t", "i", "o", "n", "s", "/", "sect" >>

IdorIntruderTail ==
    << "sect", "/", "w", "a", "l", "l", "e", "t", "s", "\n", "#", " ", "A", "t", "t", "a", "c",
       "k", " ", "T", "y", "p", "e", ":", " ", "S", "n", "i", "p", "e", "r", "\n", "#", " ", "P",
       "a", "y", "l", "o", "a", "d", " ", "T", "y", "p", "e", ":", " ", "N", "u", "m", "b", "e",
       "r", "s", "\n", "#", " ", "N", "u", "m", "b", "e", "r", " ", "r", "a", "n", "g", "e", ":",
       " ", "1", "-", "1", "0", "0", "0", "\n", "#", " ", "N", "u", "m", "b", "e", "r", " ", "f",
       "o", "r", "m", "a", "t", ":", " ", "D", "e", "c", "i", "m", "a", "l", "\n", "#", " ", "P",
       "a", "y", "l", "o", "a", "d", " ", "p", "r", "o", "c", "e", "s", "s", "i", "n", "g", ":",
       " ", "A", "d", "d", " ", "g", "r", "e", "p", " ", "m", "a", "t", "c", "h", " ", "f", "o",
       "r", " ", "\"", "b", "a", "l", "a", "n", "c", "e", "\"", ",", " ", "\"", "w", "a", "l",
       "l", "e", "t", "\"", ",", " ", "\"", "s", "u", "c", "c", "e", "s", "s", "\"", "\n", "\n",
       "#", " ", "A", "l", "t", "e", "r", "n", "a", "t", "i", "v", "e", " ", "p", "a", "y", "l",
       "o", "a", "d", " ", "l", "i", "s", "t", ":", "\n", "1", "\n", "2", "\n", "1", "0", "0",
       "\n", "1", "0", "0", "0", "\n", "1", "0", "0", "1", "\n", "a", "d", "m", "i", "n", "\n",
       "t", "e", "s", "t", "\n", "d", "e", "m", "o", "\n", "g", "u", "e", "s", "t", "\n", "r",
       "o", "o", "t", "\n", "s", "y", "s", "t", "e", "m", "\n", "d", "e", "f", "a", "u", "l",
       "t", "\n" >>

IdorRepeaterHead ==
    << "G", "E", "T", " ", "/", "a", "p", "i", "/", "v", "2", "/", "o", "r", "g", "a", "n", "i",
       "z", "a", "t", "i", "o", "n", "s", "/", "1", "/", "w", "a", "l", "l", "e", "t", "s", " ",
       "H", "T", "T", "P", "/", "1", ".", "1", "\n", "H", "o", "s", "t", ":", " ", "t", "a", "r",
       "g", "e", "t", ".", "c", "o", "m", "\n", "A", "u", "t", "h", "o", "r", "i", "z", "a", "t",
       "i", "o", "n", ":", " ", "B", "e", "a", "r", "e", "r", " ", "{", "t", "o", "k", "e", "n",
       "}", "\n", "U", "s", "e", "r", "-", "A", "g", "e", "n", "t", ":", " ", "B", "u", "g", "B",
       "o", "u", "n", "t", "y", "-", "R", "e", "s", "e", "a", "r", "c", "h", "/", "1", ".", "0",
       "\n", "A", "c", "c", "e", "p", "t", ":", " ", "a", "p", "p", "l", "i", "c", "a", "t", "i",
       "o", "n", "/", "j", "s", "o", "n", "\n", "\n", "#", " ", "T", "e", "s", "t", " ", "w",
       "i", "t", "h", " ", "d", "i", "f", "f", "e", "r", "e", "n", "t", " " >>

IdorRepeaterTail ==
    << " ", "v", "a", "l", "u", "e", "s", ":", "\n", "#", " ", "S", "e", "q", "u", "e", "n", "t",
       "i", "a", "l", ":", " ", "1", ",", " ", "2", ",", " ", "3", ".", ".", ".", " ", "1", "0",
       "0", "0", "\n", "#", " ", "P", "r", "e", "d", "i", "c", "t", "a", "b", "l", "e", ":", " ",
       "a", "d", "m", "i", "n", ",", " ", "t", "e", "s", "t", ",", " ", "d", "e", "m", "o", "\n",
       "#", " ", "N", "e", "g", "a", "t", "i", "v", "e", ":", " ", "-", "1", ",", " ", "0", "\n",
       "#", " ", "L", "a", "r", "g", "e", ":", " ", "9", "9", "9", "9", "9", "9", ",", " ", "1",
       "0", "0", "0", "0", "0", "0" >>

IdorMethodology ==
    << "1", ".", " ", "I", "d", "e", "n", "t", "i", "f", "y", " ", "p", "a", "r", "a", "m", "e",
       "t", "e", "r", ",", " ", "2", ".", " ", "S", "e", "t", " ", "p", "a", "y", "l", "o", "a",
       "d", " ", "p", "o", "s", "i", "t", "i", "o", "n", "s", ",", " ", "3", ".", " ", "C", "o",
       "n", "f", "i", "g", "u", "r", "e", " ", "n", "u", "m", "b", "e", "r", " ", "r", "a", "n",
       "g", "e", ",", " ", "4", ".", " ", "A", "n", "a", "l", "y", "z", "e", " ", "r", "e", "s",
       "p", "o", "n", "s", "e", " ", "d", "i", "f", "f", "e", "r", "e", "n", "c", "e", "s" >>

AuthBypassIntruder ==
    << "\n", "#", " ", "R", "a", "c", "e", " ", "C", "o", "n", "d", "i", "t", "i", "o", "n", " ",
       "T", "e", "s", "t", "i", "n", "g", "\n", "#", " ", "T", "a", "r", "g", "e", "t", ":", " ",
       "/", "a", "p", "i", "/", "v", "2", "/", "a", "u", "t", "h", "/", "2", "f", "a", "/", "v",
       "e", "r", "i", "f", "y", "\n", "#", " ", "A", "t", "t", "a", "c", "k", " ", "T", "y", "p",
       "e", ":", " ", "P", "i", "t", "c", "h", "f", "o", "r", "k", " ", "(", "m", "u", "l", "t",
       "i", "p", "l", "e", " ", "p", "a", "r", "a", "m", "e", "t", "e", "r", "s", ")", "\n", "#",
       " ", "T", "h", "r", "e", "a", "d", "s", ":", " ", "5", "0", " ", "c", "o", "n", "c", "u",
       "r", "r", "e", "n", "t", " ", "r", "e", "q", "u", "e", "s", "t", "s", "\n", "#", " ", "P",
       "a", "y", "l", "o", "a", "d", ":", " ", "{", "\"", "o", "t", "p", "_", "c", "o", "d", "e",
       "\"", ":", " ", "\"", "1", "2", "3", "4", "5", "6", "\"", ",", " ", "\"", "s", "e", "s",
       "s", "i", "o", "n", "_", "i", "d", "\"", ":", " ", "\"", "sect", "s", "e", "s", "s", "i",
       "o", "n", "sect", "\"", "}", "\n" >>

AuthBypassRepeater ==
    << "P", "O", "S", "T", " ", "/", "a", "p", "i", "/", "v", "2", "/", "a", "u", "t", "h", "/",
       "2", "f", "a", "/", "v", "e", "r", "i", "f", "y", " ", "H", "T", "T", "P", "/", "1", ".",
       "1", "\n", "H", "o", "s", "t", ":", " ", "t", "a", "r", "g", "e", "t", ".", "c", "o", "m",
       "\n", "C", "o", "n", "t", "e", "n", "t", "-", "T", "y", "p", "e", ":", " ", "a", "p", "p",
       "l", "i", "c", "a", "t", "i", "o", "n", "/", "j", "s", "o", "n", "\n", "\n", "{", "\"",
       "o", "t", "p", "_", "c", "o", "d", "e", "\"", ":", " ", "\"", "1", "2", "3", "4", "5",
       "6", "\"", ",", " ", "\"", "u", "s", "e", "r", "_", "i", "d", "\"", ":", " ", "\"", "t",
       "e", "s", "t", "\"", ",", " ", "\"", "s", "e", "s", "s", "i", "o", "n", "_", "t", "o",
       "k", "e", "n", "\"", ":", " ", "\"", "s", "e", "s", "s", "i", "o", "n", "_", "1", "2",
       "3", "\"", "}" >>

AuthBypassMethodology ==
    << "1", ".", " ", "C", "a", "p", "t", "u", "r", "e", " ", "2", "F", "A", " ", "r", "e", "q",
       "u", "e", "s", "t", ",", " ", "2", ".", " ", "C", "o", "n", "f", "i", "g", "u", "r", "e",
       " ", "r", "a", "c", "e", " ", "c", "o", "n", "d", "i", "t", "i", "o", "n", ",", " ", "3",
       ".", " ", "S", "e", "n", "d", " ", "c", "o", "n", "c", "u", "r", "r", "e", "n", "t", " ",
       "r", "e", "q", "u", "e", "s", "t", "s", ",", " ", "4", ".", " ", "A", "n", "a", "l", "y",
       "z", "e", " ", "s", "u", "c", "c", "e", "s", "s", " ", "r", "a", "t", "e", "s" >>

GenericIntruderHead ==
    << "#", " ", "G", "e", "n", "e", "r", "i", "c", " ", "p", "a", "y", "l", "o", "a", "d", " ",
       "f", "o", "r", " " >>

GenericIntruderTail ==
    << " ", "t", "e", "s", "t", "i", "n", "g" >>

GenericRepeaterHead ==
    << "#", " ", "T", "e", "m", "p", "l", "a", "t", "e", " ", "f", "o", "r", " " >>

GenericRepeaterMid ==
    << " ", "p", "a", "r", "a", "m", "e", "t", "e", "r", ":", " " >>

GenericMethodologyHead ==
    << "S", "t", "a", "n", "d", "a", "r", "d", " ", "m", "e", "t", "h", "o", "d", "o", "l", "o",
       "g", "y", " ", "f", "o", "r", " " >>

GenericMethodologyTail ==
    << " ", "v", "u", "l", "n", "e", "r", "a", "b", "i", "l", "i", "t", "y", " ", "t", "e", "s",
       "t", "i", "n", "g" >>

Whitespace == {" ", "\n", "\t", "\r"}

RECURSIVE LStrip(_)
LStrip(s) == IF s # <<>> /\ Head(s) \in Whitespace THEN LStrip(Tail(s)) ELSE s

RECURSIVE RStrip(_)
RStrip(s) ==
    IF s # <<>> /\ s[Len(s)] \in Whitespace THEN RStrip(SubSeq(s, 1, Len(s) - 1)) ELSE s

\* str.strip()
Strip(s) == RStrip(LStrip(s))

idor == <<"i", "d", "o", "r">>
auth_bypass == <<"a", "u", "t", "h", "_", "b", "y", "p", "a", "s", "s">>
user_id == <<"u", "s", "e", "r", "_", "i", "d">>
organization_id ==
    <<"o", "r", "g", "a", "n", "i", "z", "a", "t", "i", "o", "n", "_", "i", "d">>

\* mutant: the position is filled with a fixed id, as in the repeater request line
IdorIntruderPayload_fixed_id(parameter) ==
    Strip(IdorIntruderHead \o <<"1">> \o IdorIntruderTail)

\* the intruder_payload of the idor branch
IdorIntruderPayload(parameter) ==
    Strip(IdorIntruderHead \o parameter \o IdorIntruderTail)

generate_burp_payloads(vuln_type, parameter) ==
    IF vuln_type = idor
    THEN [intruder_payload |-> IdorIntruderPayload(parameter),
          repeater_template |-> IdorRepeaterHead \o parameter \o IdorRepeaterTail,
          methodology |-> IdorMethodology]
    ELSE IF vuln_type = auth_bypass
    THEN [intruder_payload |-> Strip(AuthBypassIntruder),
          repeater_template |-> AuthBypassRepeater,
          methodology |-> AuthBypassMethodology]
    ELSE [intruder_payload |-> GenericIntruderHead \o vuln_type \o GenericIntruderTail,
          repeater_template |->
              GenericRepeaterHead \o vuln_type \o GenericRepeaterMid \o parameter,
          methodology |-> GenericMethodologyHead \o vuln_type \o GenericMethodologyTail]

----------------------------------------------------------------------------
(* State machine *)

SessionIds == {"a1b2c3d4"}

Targets == {<<"T", "e", "s", "t", "T">>, <<"n", "H">>}

Categories == {"idor", "auth_bypass", "business_logic", "crypto_specific", "xss"}

\* category lists of the session specification
SessionTypeLists == {<<>>, <<"idor", "business_logic">>}
\* inputs of the specifications that interleave other operations with calls,
\* and the target of the single-call specification
ProbeTargets == {<<"T", "e", "s", "t", "T">>}
ProbeTypeLists == {<<"auth_bypass">>}
\* category lists of the single-call specification
AllTypeLists == SeqsUpTo(Categories, MaxTypes)

\* mutant: the record is put at the front of the log
append_front(log, record) == <<record>> \o log

\* self.session_log.append(research_results)
append(log, record) == Append(log, record)

\* no call in progress
IdleRun == [pc |-> "idle", trace |-> <<>>]

\* the agent after __init__, when the sandbox setup met this fault; r is what
\* the caller has observed so far
Constructed(fault, r) ==
    /\ premium \in BOOLEAN
    /\ api_key \in ApiKeys
    /\ docker_requested \in BOOLEAN
    /\ session_id \in SessionIds
    /\ use_docker = InitUseDocker(docker_requested, fault)
    /\ docker_env = InitDockerEnv(docker_requested, fault)
    /\ init_result = InitResult(docker_requested, fault)
    /\ session_log = <<>>
    /\ files = <<>>
    /\ now = 0
    /\ tools = InitTools
    /\ lookups = <<>>
    /\ scope = "outside"
    /\ run = IdleRun
    /\ ret = r
    /\ calls = 0
    /\ streak = 0

Init == \E fault \in InitFaults : Constructed(fault, [op |-> "init"])

\* construction, with the fault the sandbox setup met on record
InitSandbox ==
    \E fault \in InitFaults : Constructed(fault, [op |-> "init", fault |-> fault])

\* the research modules _analysis_layer runs for a category list
ModulesRun(vuln_types) == SelectSeq(vuln_types, LAMBDA v : v \in ModuleNames)

\* mutant: a denied call is recorded in the session log
OrchestrateCall_logs_denial(Ts, Ls, Ns) ==
    \E target \in Ts, vuln_types \in Ls, net \in Ns :
        LET granted == validate_premium_access(premium, api_key, session_log)
            runs == RunsNeeded(premium, use_docker, docker_env,
                        analysis_layer(recon_layer(target, vuln_types, net), vuln_types, now))
        IN  /\ calls' = calls + 1
            /\ streak' = 0
            /\ IF ~granted
               THEN /\ ret' = [op |-> "orchestrate_research", target |-> target,
                               vuln_types |-> vuln_types, granted |-> FALSE,
                               modules_run |-> <<>>, sandbox_runs |-> 0,
                               outs |-> <<>>,
                               value |-> AccessDenied]
                    /\ session_log' = Append(session_log, AccessDenied)
                    /\ UNCHANGED <<now, lookups>>
               ELSE \E outs \in [1..runs -> PossibleOutcomes(docker_env)] :
                      LET research_results ==
                              orchestrate_research(premium, use_docker, docker_env,
                                  session_id, now, target, vuln_types, net, outs)
                      IN  /\ session_log' = append(session_log, research_results)
                          /\ now' = now + 1
                          /\ lookups' = Looked(lookups, ReconTools, now)
                          /\ ret' = [op |-> "orchestrate_research", target |-> target,
                                     vuln_types |-> vuln_types, granted |-> TRUE,
                                     modules_run |-> ModulesRun(vuln_types),
                                     sandbox_runs |-> runs,
                                     outs |-> outs,
                                     value |-> research_results]
            /\ UNCHANGED <<api_key, premium, use_docker, session_id, docker_env,
                           files, docker_requested, init_result, tools, scope, run>>

\* one call of orchestrate_research, with its arguments, the outcome of the
\* adapters' live requests and the outcomes of the sandbox runs
OrchestrateCall(Ts, Ls, Ns) ==
    \E target \in Ts, vuln_types \in Ls, net \in Ns :
        LET granted == validate_premium_access(premium, api_key, session_log)
            runs == RunsNeeded(premium, use_docker, docker_env,
                        analysis_layer(recon_layer(target, vuln_types, net), vuln_types, now))
        IN  /\ calls' = calls + 1
            /\ streak' = 0
            /\ IF ~granted
               THEN /\ ret' = [op |-> "orchestrate_research", target |-> target,
                               vuln_types |-> vuln_types, granted |-> FALSE,
                               modules_run |-> <<>>, sandbox_runs |-> 0,
                               outs |-> <<>>,
                               value |-> AccessDenied]
                    /\ UNCHANGED <<session_log, now, lookups>>
               ELSE \E outs \in [1..runs -> PossibleOutcomes(docker_env)] :
                      LET research_results ==
                              orchestrate_research(premium, use_docker, docker_env,
                                  session_id, now, target, vuln_types, net, outs)
                      IN  /\ session_log' = append(session_log, research_results)
                          /\ now' = now + 1
                          /\ lookups' = Looked(lookups, ReconTools, now)
                          /\ ret' = [op |-> "orchestrate_research", target |-> target,
                                     vuln_types |-> vuln_types, granted |-> TRUE,
                                     modules_run |-> ModulesRun(vuln_types),
                                     sandbox_runs |-> runs,
                                     outs |-> outs,
                                     value |-> research_results]
            /\ UNCHANGED <<api_key, premium, use_docker, session_id, docker_env,
                           files, docker_requested, init_result, tools, scope, run>>

Orchestrate ==
    /\ calls < MaxCalls
    /\ OrchestrateCall(Targets, SessionTypeLists, {Offline})

OrchestrateProbe ==
    /\ calls < MaxCalls
    /\ OrchestrateCall(ProbeTargets, ProbeTypeLists, {Offline})

OrchestrateOnce ==
    /\ calls = 0
    /\ OrchestrateCall(ProbeTargets, AllTypeLists, Networks)

\* mutant: every access check is recorded as a use of the quota
ValidatePremiumAccess_counts_checks ==
    /\ streak < MaxStreak
    /\ streak' = streak + 1
    /\ LET access == validate_premium_access(premium, api_key, session_log)
       IN  ret' = [op |-> "validate_premium_access",
                   value |-> access,
                   \* whether a call of the current run of calls has returned False
                   denied |-> (streak > 0 /\ ret.denied) \/ ~access]
    /\ session_log' = Append(session_log, [check |-> streak])
    /\ UNCHANGED <<api_key, premium, use_docker, session_id, docker_env,
                   files, now, calls, docker_requested, init_result,
                       tools, lookups, scope, run>>

ValidatePremiumAccess ==
    /\ streak < MaxStreak
    /\ streak' = streak + 1
    /\ LET access == validate_premium_access(premium, api_key, session_log)
       IN  ret' = [op |-> "validate_premium_access",
                   value |-> access,
                   \* whether a call of the current run of calls has returned False
                   denied |-> (streak > 0 /\ ret.denied) \/ ~access]
    /\ UNCHANGED <<api_key, premium, use_docker, session_id, docker_env, session_log,
                   files, now, calls, docker_requested, init_result,
                       tools, lookups, scope, run>>

\* mutant: saving the session starts a new log
SaveSession_flushes_log ==
    \E arg \in FilenameArgs :
        LET filename == save_session(arg, session_id)
        IN  /\ files' = WriteFile(files, filename, json_dump(session_log))
            /\ ret' = [op |-> "save_session", arg |-> arg, value |-> filename]
            /\ streak' = 0
            /\ session_log' = <<>>
            /\ UNCHANGED <<api_key, premium, use_docker, session_id, docker_env,
                           now, calls, docker_requested, init_result,
                       tools, lookups, scope, run>>

SaveSession ==
    \E arg \in FilenameArgs :
        LET filename == save_session(arg, session_id)
        IN  /\ files' = WriteFile(files, filename, json_dump(session_log))
            /\ ret' = [op |-> "save_session", arg |-> arg, value |-> filename]
            /\ streak' = 0
            /\ UNCHANGED <<api_key, premium, use_docker, session_id, docker_env,
                           session_log, now, calls, docker_requested, init_result,
                       tools, lookups, scope, run>>

\* inputs of a direct adapter call
AdapterNetworks == Networks \cup FailingNetworks
AdapterParams ==
    { [query |-> <<"i", "d", "o", "r">>, q |-> <<"i", "d", "o", "r">>] }

\* one call of MCPToolWrapper.call on one of the agent's adapters
AdapterCall ==
    \E k \in DOMAIN tools, params \in AdapterParams, net \in AdapterNetworks :
        LET r == call(tools[k], params, net, now)
        IN  /\ tools' = [tools EXCEPT ![k] = r.tool]
            /\ lookups' = Looked(lookups, {k}, r.started)
            /\ now' = r.started
            /\ ret' = [op |-> "call", adapter |-> k, net |-> net,
                       arrived |-> now, started |-> r.started,
                       previous |-> IF k \in DOMAIN lookups
                                    THEN [some |-> TRUE, at |-> lookups[k]]
                                    ELSE [some |-> FALSE, at |-> 0],
                       raised |-> r.raised, requests |-> r.requests,
                       value |-> r.value]
            /\ streak' = 0
            /\ UNCHANGED <<api_key, premium, use_docker, session_id, docker_env,
                           session_log, files, calls, docker_requested, init_result,
                           scope, run>>

\* a second of wall-clock time passes
Tick ==
    /\ now < MaxTime
    /\ now' = now + 1
    /\ UNCHANGED <<api_key, premium, use_docker, session_id, docker_env, session_log,
                   files, ret, calls, streak, docker_requested, init_result,
                   tools, lookups, scope, run>>

\* a free agent without a sandbox, whose adapters are called directly
InitAdapter ==
    /\ Init
    /\ ~premium
    /\ api_key = NoKey
    /\ ~docker_requested

\* adapter calls as time passes
NextAdapter == AdapterCall \/ Tick
SpecAdapter == InitAdapter /\ [][NextAdapter]_vars

TestNames == {<<"test_", "probe">>}

\* one direct call of docker_env.execute_test
ExecuteTest ==
    /\ docker_env.exists
    /\ \E test_name \in TestNames, fault \in PossibleFaults(docker_env) :
        \E left \in temp_files_left(docker_env, fault) :
          LET value == execute_test(docker_env, test_name, fault)
          IN  ret' = [op |-> "execute_test", test_name |-> test_name, fault |-> fault,
                      container |-> docker_env.container,
                      runtime_ops |-> runtime_ops(docker_env, fault),
                      temp_files_left |-> left,
                      raised |-> "exception" \in DOMAIN value,
                      value |-> value]
    /\ streak' = 0
    /\ UNCHANGED <<api_key, premium, use_docker, session_id, docker_env, session_log,
                   files, now, calls, docker_requested, init_result, tools, lookups,
                   scope, run>>

\* one call of agent.cleanup()
Cleanup ==
    /\ \E stop_out \in StopOutcomes(docker_env), remove_out \in CallOutcomes :
          LET r == agent_cleanup(docker_env, stop_out, remove_out)
          IN  /\ docker_env' = r.env
              /\ ret' = [op |-> "cleanup", container |-> docker_env.container,
                         stop_out |-> stop_out, remove_out |-> remove_out,
                         stop_called |-> r.stop_called,
                         remove_called |-> r.remove_called,
                         raised |-> r.raised]
    /\ streak' = 0
    /\ UNCHANGED <<api_key, premium, use_docker, session_id, session_log,
                   files, now, calls, docker_requested, init_result, tools, lookups,
                   scope, run>>

\* how control leaves a with-block on the agent: normally, by an exception of
\* the caller's own code, or by one that orchestrate_research raised
BlockExits == {"None", "body_raised", "orchestrate_raised"}

\* mutant: the release is skipped when the block ends in an exception
exit_skips_on_exception(env, exc, stop_out, remove_out) ==
    IF exc # "None"
    THEN [env |-> env, cleanups |-> 0, stop_called |-> FALSE, remove_called |-> FALSE,
          raised |-> FALSE, suppress |-> FALSE]
    ELSE LET r == agent_cleanup(env, stop_out, remove_out)
         IN  [env |-> r.env, cleanups |-> 1, stop_called |-> r.stop_called,
              remove_called |-> r.remove_called, raised |-> r.raised,
              suppress |-> FALSE]

\* __exit__: calls self.cleanup() and returns None, which suppresses nothing
exit(env, exc, stop_out, remove_out) ==
    LET r == agent_cleanup(env, stop_out, remove_out)
    IN  [env |-> r.env, cleanups |-> 1, stop_called |-> r.stop_called,
         remove_called |-> r.remove_called, raised |-> r.raised,
         suppress |-> FALSE]

\* __enter__: the with-block starts
Enter ==
    /\ scope # "inside"
    /\ scope' = "inside"
    /\ ret' = [op |-> "__enter__"]
    /\ streak' = 0
    /\ UNCHANGED <<api_key, premium, use_docker, session_id, docker_env, session_log,
                   files, now, calls, docker_requested, init_result, tools, lookups, run>>

\* control leaves the with-block and the interpreter calls __exit__
ExitBlock ==
    /\ scope = "inside"
    /\ \E exc \in BlockExits, stop_out \in StopOutcomes(docker_env),
          remove_out \in CallOutcomes :
          LET r == exit(docker_env, exc, stop_out, remove_out)
          IN  /\ docker_env' = r.env
              /\ ret' = [op |-> "__exit__", exc |-> exc,
                         container |-> docker_env.container,
                         cleanups |-> r.cleanups,
                         stop_called |-> r.stop_called,
                         remove_called |-> r.remove_called,
                         raised |-> r.raised,
                         propagated |-> (exc # "None" /\ ~r.suppress)]
    /\ scope' = "left"
    /\ streak' = 0
    /\ UNCHANGED <<api_key, premium, use_docker, session_id, session_log,
                   files, now, calls, docker_requested, init_result, tools, lookups, run>>

\* the agent used as a scoped resource
NextScope == Enter \/ OrchestrateProbe \/ ExitBlock
SpecScope == Init /\ [][NextScope]_vars

\* severities of the Findings priced directly; INFO is not in the price table
Severities == {"CRITICAL", "HIGH", "MEDIUM", "LOW", "INFO"}

\* a Finding of the given severity
Finding(severity) ==
    VulnerabilityIntel(<<"finding">>, "description", severity, "poc", 80, <<>>, 0)

\* one call of _estimate_bounty_potential on a list of Findings
EstimateBountyPotential ==
    \E severities \in SeqsUpTo(Severities, MaxFindings) :
        /\ ret' = [op |-> "estimate_bounty_potential", severities |-> severities,
                   value |-> estimate_bounty_potential(
                       [vulnerabilities |->
                           [i \in 1..Len(severities) |-> Finding(severities[i])]])]
        /\ streak' = 0
        /\ UNCHANGED <<api_key, premium, use_docker, session_id, docker_env, session_log,
                       files, now, calls, docker_requested, init_result,
                       tools, lookups, scope, run>>

\* the estimate over every list of up to MaxFindings severities
NextBounty == EstimateBountyPotential
SpecBounty == InitAdapter /\ [][NextBounty]_vars

\* the fields no stage of orchestrate_research writes
StageFrame ==
    <<api_key, premium, use_docker, session_id, docker_env, files,
      docker_requested, init_result, scope>>

\* the key of recon_results that holds the response of an adapter
ReconKey(k) ==
    CASE k = "perplexity" -> "threat_intel"
      [] k = "github" -> "tools_available"
      [] k = "brave" -> "public_intel"

\* the parameters _recon_layer passes to an adapter
ReconParams(k, target, vuln_types) ==
    CASE k = "perplexity" ->
           [query |-> <<target, vuln_types, " vulnerabilities 2025 bug bounty">>,
            max_tokens |-> 1000]
      [] k = "github" ->
           [q |-> <<target, " security testing ", vuln_types>>,
            sort |-> "stars", per_page |-> 10]
      [] k = "brave" ->
           [query |-> <<target, " bug bounty program API security">>,
            count |-> 5]

\* a future of the thread pool: submitted, running or done with its result
NoResponse == [pending |-> TRUE]
Submitted == [state |-> "submitted", value |-> NoResponse]

\* mutant: the stage goes on as soon as the first future is done
AllDone_first_only(futures) == futures["perplexity"].state = "done"

\* future.result() has returned for all three, and the pool has shut down
AllDone(futures) == \A k \in DOMAIN futures : futures[k].state = "done"

\* recon_results, read from the three futures
ReconResults(futures) ==
    [key \in {ReconKey(k) : k \in DOMAIN futures} |->
        futures[CHOOSE k \in DOMAIN futures : ReconKey(k) = key].value]

EmptyAnalysis ==
    [vulnerabilities |-> <<>>, attack_vectors |-> <<>>,
     tools_recommended |-> <<>>, confidence_scores |-> <<>>]

StagedTypeLists == {<<>>, <<"idor", "xss", "business_logic", "auth_bypass">>}
StagedNetworks == {Offline}

Event(run_, ev) == [run_ EXCEPT !.trace = Append(@, ev)]

\* orchestrate_research is called: the access check, then the three submits
BeginCall ==
    /\ run.pc = "idle"
    /\ calls < MaxStagedCalls
    /\ \E target \in ProbeTargets, vuln_types \in StagedTypeLists,
          net \in StagedNetworks :
          IF ~validate_premium_access(premium, api_key, session_log)
          THEN /\ ret' = [op |-> "orchestrate_research", target |-> target,
                          vuln_types |-> vuln_types, granted |-> FALSE,
                          modules_run |-> <<>>, sandbox_runs |-> 0,
                          outs |-> <<>>, raised |-> FALSE,
                          value |-> AccessDenied]
               /\ run' = [IdleRun EXCEPT !.trace = << <<"access_check">> >>]
          ELSE /\ ret' = [op |-> "in_progress"]
               /\ run' = [pc |-> "recon", target |-> target,
                          vuln_types |-> vuln_types, net |-> net,
                          trace |-> << <<"access_check">> >>,
                          futures |-> [k \in ReconTools |-> Submitted],
                          recon_data |-> <<>>,
                          pending |-> vuln_types,
                          analysis_data |-> EmptyAnalysis,
                          execution_plan |-> <<>>,
                          outs |-> <<>>]
    /\ calls' = calls + 1
    /\ streak' = 0
    /\ UNCHANGED <<StageFrame, session_log, now, tools, lookups>>

\* a worker thread picks up the call of adapter k
StartCall ==
    /\ run.pc = "recon"
    /\ \E k \in DOMAIN run.futures :
          /\ run.futures[k].state = "submitted"
          /\ run' = Event([run EXCEPT !.futures[k].state = "running"],
                          <<"call_start", k>>)
    /\ UNCHANGED <<StageFrame, session_log, now, tools, lookups, ret, calls, streak>>

\* the call of adapter k returns in its worker thread
FinishCall ==
    /\ run.pc = "recon"
    /\ \E k \in DOMAIN run.futures :
          /\ run.futures[k].state = "running"
          /\ LET r == call(tools[k], ReconParams(k, run.target, run.vuln_types),
                           run.net, now)
             IN  /\ tools' = [tools EXCEPT ![k] = r.tool]
                 /\ lookups' = Looked(lookups, {k}, now)
                 /\ run' = Event([run EXCEPT !.futures[k] =
                                     [state |-> "done", value |-> r.value]],
                                 <<"call_done", k>>)
    /\ UNCHANGED <<StageFrame, session_log, now, ret, calls, streak>>

\* _recon_layer returns: the three results are read and the pool is left
ReconJoin ==
    /\ run.pc = "recon"
    /\ AllDone(run.futures)
    /\ run' = Event([run EXCEPT !.pc = "analysis",
                                !.recon_data = ReconResults(run.futures)],
                    <<"recon_joined">>)
    /\ UNCHANGED <<StageFrame, session_log, now, tools, lookups, ret, calls, streak>>

\* one turn of the loop over the requested categories in _analysis_layer
AnalysisStep ==
    /\ run.pc = "analysis"
    /\ run.pending # <<>>
    /\ LET vuln_type == Head(run.pending)
           after == [run EXCEPT
                       !.pending = Tail(@),
                       !.analysis_data =
                           RunModules(<<vuln_type>>, run.recon_data, now, @)]
       IN  run' = IF vuln_type \in ModuleNames
                  THEN Event(after, <<"module", vuln_type>>)
                  ELSE after
    /\ UNCHANGED <<StageFrame, session_log, now, tools, lookups, ret, calls, streak>>

\* mutant: the sandbox stage is entered straight after the analysis
AfterAnalysis_sandbox_first(prem) == IF prem THEN "sandbox" ELSE "finish"

\* the stage that follows the analysis, and the one that follows the plan
AfterAnalysis(prem) == IF prem THEN "plan" ELSE "finish"
AfterPlan(use, env) == IF use /\ env.exists THEN "sandbox" ELSE "finish"

\* the tool recommendations, and _analysis_layer returns
AnalysisDone ==
    /\ run.pc = "analysis"
    /\ run.pending = <<>>
    /\ run' = Event([run EXCEPT
                        !.pc = AfterAnalysis(premium),
                        !.analysis_data.tools_recommended =
                            RecommendTools(run.recon_data.tools_available.repositories, @)],
                    <<"analysis_done">>)
    /\ UNCHANGED <<StageFrame, session_log, now, tools, lookups, ret, calls, streak>>

\* _execution_layer
BuildPlan ==
    /\ run.pc = "plan"
    /\ run' = Event([run EXCEPT
                        !.pc = AfterPlan(use_docker, docker_env),
                        !.execution_plan =
                            execution_layer(run.analysis_data, run.target)],
                    <<"plan_built">>)
    /\ UNCHANGED <<StageFrame, session_log, now, tools, lookups, ret, calls, streak>>

\* one execute_test call of _docker_testing_layer
SandboxStep ==
    /\ run.pc = "sandbox"
    /\ Len(run.outs) < RunsNeeded(premium, use_docker, docker_env, run.analysis_data)
    /\ \E outcome \in PossibleOutcomes(docker_env) :
          run' = Event([run EXCEPT !.outs = Append(@, outcome)],
                       <<"sandbox_run", Len(run.outs) + 1>>)
    /\ UNCHANGED <<StageFrame, session_log, now, tools, lookups, ret, calls, streak>>

\* _docker_testing_layer returns
SandboxDone ==
    /\ run.pc = "sandbox"
    /\ Len(run.outs) = RunsNeeded(premium, use_docker, docker_env, run.analysis_data)
    /\ run' = Event([run EXCEPT !.pc = "finish"], <<"sandbox_done">>)
    /\ UNCHANGED <<StageFrame, session_log, now, tools, lookups, ret, calls, streak>>

\* research_results.update with the bounty estimate, the append and the return
FinishCallOfOrchestrate ==
    /\ run.pc = "finish"
    /\ LET with_plan == IF premium
                        THEN [execution_plan |-> run.execution_plan] ELSE <<>>
           sections ==
               IF premium /\ use_docker /\ docker_env.exists
               THEN Update(with_plan,
                        [docker_testing |->
                            docker_testing_layer(run.analysis_data, run.target,
                                use_docker, docker_env, run.outs)])
               ELSE with_plan
           research_results ==
               Update(sections, ResultFields(session_id, run.target, now,
                                             run.recon_data, run.analysis_data))
       IN  /\ session_log' = append(session_log, research_results)
           /\ ret' = [op |-> "orchestrate_research", target |-> run.target,
                      vuln_types |-> run.vuln_types, granted |-> TRUE,
                      modules_run |-> ModulesRun(run.vuln_types),
                      sandbox_runs |-> Len(run.outs),
                      outs |-> run.outs, raised |-> FALSE,
                      value |-> research_results]
           /\ run' = [pc |-> "idle",
                      trace |-> run.trace \o << <<"estimate">>, <<"appended">>,
                                                <<"returned">> >>]
    /\ now' = now + 1
    /\ streak' = 0
    /\ UNCHANGED <<StageFrame, tools, lookups, calls>>

\* the stages whose code can raise; recon raises out of future.result() once
\* the pool has been left, so after all three calls are done
CanRaise(run_) ==
    \/ run_.pc \in {"analysis", "plan", "sandbox"}
    \/ run_.pc = "recon" /\ AllDone(run_.futures)

\* mutant: what the call had gathered so far is recorded before the exception
\* leaves
LogAfterRaise_partial(log, run_) ==
    Append(log, [session_id |-> session_id, target |-> run_.target,
                 recon_data |-> run_.recon_data])

\* what is left of the session log when a stage raises
LogAfterRaise(log, run_) == log

\* a stage raises: nothing in orchestrate_research catches it
StageRaises ==
    /\ CanRaise(run)
    /\ ret' = [op |-> "orchestrate_research", target |-> run.target,
               vuln_types |-> run.vuln_types, granted |-> TRUE,
               raised |-> TRUE, stage |-> run.pc,
               log_before |-> session_log]
    /\ session_log' = LogAfterRaise(session_log, run)
    /\ run' = [pc |-> "idle", trace |-> Append(run.trace, <<"raised", run.pc>>)]
    /\ streak' = 0
    /\ UNCHANGED <<StageFrame, now, tools, lookups, calls>>

\* a premium or free agent without a key, its calls taken stage by stage
InitStages == Init /\ api_key = NoKey

NextStages ==
    \/ BeginCall \/ StartCall \/ FinishCall \/ ReconJoin
    \/ AnalysisStep \/ AnalysisDone \/ BuildPlan
    \/ SandboxStep \/ SandboxDone \/ FinishCallOfOrchestrate \/ StageRaises
SpecStages == InitStages /\ [][NextStages]_vars

RECURSIVE ReportFindings(_)
\* the loop of generate_report over the Findings
ReportFindings(vulns) ==
    IF vulns = <<>> THEN <<>>
    ELSE LET vuln == Head(vulns)
         IN  << <<vuln.title, " (", vuln.severity, ")">>,
                <<"Description: ", vuln.description>>,
                <<"PoC Template: ", vuln.poc_template>>,
                <<"Confidence: ", vuln.confidence, "%">> >>
               \o ReportFindings(Tail(vulns))

\* generate_report: the report text as its lines; results without the fields of
\* a full record raise KeyError
generate_report(results) ==
    IF ~({"session_id", "target", "timestamp", "vulnerability_count",
          "estimated_bounty_range", "analysis_data"} \subseteq DOMAIN results)
    THEN [exception |-> "KeyError"]
    ELSE LET analysis_data == results.analysis_data
             recommended == analysis_data.tools_recommended
         IN  [report |->
                << <<"Session ID: ", results.session_id>>,
                   <<"Target: ", results.target>>,
                   <<"Generated: ", results.timestamp>>,
                   <<"Vulnerabilities Identified: ", results.vulnerability_count>>,
                   <<"Estimated Bounty Range: ", results.estimated_bounty_range.min,
                     " - ", results.estimated_bounty_range.max>>,
                   <<"Confidence Level: ", results.estimated_bounty_range.confidence>> >>
                \o ReportFindings(analysis_data.vulnerabilities)
                \o [i \in 1..Len(recommended) |->
                        <<recommended[i].name, ": ", recommended[i].description,
                          " (", recommended[i].stars, " stars)">>]
                \o (IF "execution_plan" \in DOMAIN results
                    THEN << <<"Estimated Time: ", results.execution_plan.estimated_time>>,
                            <<"Testing Phases: ",
                              Len(results.execution_plan.testing_phases)>>,
                            <<"Automation Scripts: ",
                              Len(results.execution_plan.automation_scripts)>> >>
                    ELSE <<>>)]

\* generate_report on the record a call returned earlier
GenerateReport ==
    /\ session_log # <<>>
    /\ \E i \in 1..Len(session_log) :
          ret' = [op |-> "generate_report", index |-> i,
                  value |-> generate_report(session_log[i])]
    /\ streak' = 0
    /\ UNCHANGED <<api_key, premium, use_docker, session_id, docker_env, session_log,
                   files, now, calls, docker_requested, init_result, tools, lookups,
                   scope, run>>

\* an agent without a key whose sandbox, if requested, came up; every
\* operation of it in any order
InitLog == Init /\ api_key = NoKey /\ init_result # "failed"

\* a call of a short session
OrchestrateFew ==
    /\ calls < MaxStagedCalls
    /\ OrchestrateCall(ProbeTargets, ProbeTypeLists, {Offline})

NextLog ==
    \/ OrchestrateFew \/ ValidatePremiumAccess \/ SaveSession
    \/ GenerateReport \/ Cleanup
SpecLog == InitLog /\ [][NextLog]_vars

\* a free-tier agent whose sandbox, if requested, came up; every operation of
\* it in any order
InitFree == Init /\ ~premium /\ api_key = NoKey /\ init_result # "failed"

\* a call of a free-tier session that goes on after the quota is used up
OrchestrateFree ==
    /\ calls < FreeLimit + MaxDenied
    /\ OrchestrateCall(ProbeTargets, ProbeTypeLists, {Offline})

NextFree ==
    \/ OrchestrateFree \/ ValidatePremiumAccess \/ SaveSession
    \/ GenerateReport \/ Cleanup
SpecFree == InitFree /\ [][NextFree]_vars

\* the sandbox from construction on
NextSandbox == OrchestrateProbe \/ ExecuteTest \/ Cleanup
SpecSandbox == InitSandbox /\ [][NextSandbox]_vars

\* a session of orchestrate_research calls
Next == Orchestrate
Spec == Init /\ [][Next]_vars

\* calls interleaved with access checks
NextGate == OrchestrateProbe \/ ValidatePremiumAccess
SpecGate == Init /\ [][NextGate]_vars

\* calls interleaved with saves
NextSave == OrchestrateProbe \/ SaveSession
SpecSave == Init /\ [][NextSave]_vars

\* one call, over every category list up to MaxTypes and every network outcome
NextSingle == OrchestrateOnce
SpecSingle == Init /\ [][NextSingle]_vars

\* inputs of the payload generator
ParamChars == {"u", " ", "\n"}
BurpParameters == SeqsUpTo(ParamChars, MaxParamLen) \cup {user_id, organization_id}
BurpTypes == {idor, auth_bypass, <<"x", "s", "s">>, <<>>}

GenerateBurpPayloads ==
    \E vuln_type \in BurpTypes, parameter \in BurpParameters :
        /\ ret' = [op |-> "generate_burp_payloads", vuln_type |-> vuln_type,
                   parameter |-> parameter,
                   value |-> generate_burp_payloads(vuln_type, parameter)]
        /\ streak' = 0
        /\ UNCHANGED <<api_key, premium, use_docker, session_id, docker_env, session_log,
                       files, now, calls, docker_requested, init_result,
                       tools, lookups, scope, run>>

\* the payload generator over every category and parameter name
NextBurp == GenerateBurpPayloads
SpecBurp == Init /\ [][NextBurp]_vars

----------------------------------------------------------------------------
(* Properties *)

RecordKeys ==
    {"session_id", "target", "timestamp", "recon_data", "analysis_data",
     "vulnerability_count", "estimated_bounty_range"}

IsFullRecord(r) == RecordKeys \subseteq DOMAIN r

IsAccessDenied(r) ==
    /\ DOMAIN r = {"error"}
    /\ r.error = "Premium access required for full research"

OrchestrateReturned == ret.op = "orchestrate_research"
ValidateReturned == ret.op = "validate_premium_access"

\* C1: on a free-tier agent that starts with an empty session log, the 1st,
\* 2nd and 3rd calls of orchestrate_research return a full result record and
\* the 4th call returns the access-denied record, whatever the targets and
\* category lists.
C1_FreeTierThreeThenDenied ==
    (~premium /\ OrchestrateReturned) =>
        /\ (calls \in 1..3 => ret.granted /\ IsFullRecord(ret.value))
        /\ (calls = 4 => ~ret.granted /\ IsAccessDenied(ret.value))

C1_Witness ==
    /\ ~premium
    /\ OrchestrateReturned
    /\ calls = 4
    /\ Len(session_log) = 3
    /\ IsAccessDenied(ret.value)

\* C2 as stated: every call of orchestrate_research, granted or not, returns a
\* record that has session_id, has target equal to the argument and has a
\* vulnerability_count >= 0.
C2_EveryCallReturnsRecord ==
    OrchestrateReturned =>
        /\ "session_id" \in DOMAIN ret.value
        /\ "target" \in DOMAIN ret.value
        /\ ret.value.target = ret.target
        /\ "vulnerability_count" \in DOMAIN ret.value
        /\ ret.value.vulnerability_count >= 0

\* C2 (amended): every call of orchestrate_research that passes the access
\* check returns a record that has session_id (the agent's), has target equal
\* to the target argument unchanged and has a vulnerability_count >= 0.
C2_GrantedCallReturnsRecord ==
    (OrchestrateReturned /\ ret.granted) =>
        /\ "session_id" \in DOMAIN ret.value
        /\ ret.value.session_id = session_id
        /\ "target" \in DOMAIN ret.value
        /\ ret.value.target = ret.target
        /\ "vulnerability_count" \in DOMAIN ret.value
        /\ ret.value.vulnerability_count >= 0

C2_Witness ==
    /\ OrchestrateReturned
    /\ ret.granted
    /\ Len(session_log) >= 3
    /\ ret.target # Lower(ret.target)
    /\ ret.value.vulnerability_count > 0

FourModules == {"idor", "auth_bypass", "business_logic", "crypto_specific"}

IsModuleName(c) == c \in FourModules

\* the Finding each module is documented to produce
FindingTitle(c) ==
    CASE c = "idor" -> "Sequential Organization ID Enumeration"
      [] c = "auth_bypass" -> "2FA Race Condition Bypass"
      [] c = "business_logic" -> "Mining Profitability Manipulation"
      [] c = "crypto_specific" -> "Wallet Balance Disclosure"

\* C3: in every granted call vulnerability_count is the length of
\* analysis_data.vulnerabilities, which is the number of entries of the
\* category list that name one of the four modules; the i-th Finding is the
\* one of the i-th such entry (repeats counted, unknown entries skipped, list
\* order kept).
C3_OneFindingPerKnownEntry ==
    (OrchestrateReturned /\ ret.granted) =>
        LET found == ret.value.analysis_data.vulnerabilities
            known == SelectSeq(ret.vuln_types, IsModuleName)
        IN  /\ ret.value.vulnerability_count = Len(found)
            /\ Len(found) = Len(known)
            /\ \A i \in 1..Len(known) : found[i].title = FindingTitle(known[i])

C3_Witness ==
    /\ OrchestrateReturned
    /\ ret.granted
    /\ ret.vuln_types = <<"auth_bypass", "xss", "idor">>
    /\ ret.value.vulnerability_count = 2

C3_WitnessRepeat ==
    /\ OrchestrateReturned
    /\ ret.granted
    /\ ret.vuln_types = <<"idor", "idor">>
    /\ ret.value.vulnerability_count = 2

TrustedPrefix(key) ==
    key.some /\ (StartsWith(key.s, bb_prod_) \/ StartsWith(key.s, bb_test_))

\* C4: for a premium agent whose key starts with bb_prod_ or bb_test_, every
\* validate_premium_access call returns True, however many calls are made in
\* a row and however long the session log is.
C4_TrustedPremiumAlwaysGranted ==
    (premium /\ TrustedPrefix(api_key) /\ ValidateReturned) => ret.value = TRUE

C4_Witness ==
    /\ premium
    /\ TrustedPrefix(api_key)
    /\ ValidateReturned
    /\ streak >= 10
    /\ Len(session_log) > 3
    /\ ret.value = TRUE

\* C5 as stated: for a premium agent validate_premium_access returns True for
\* every api_key.
C5_PremiumNeverRejected ==
    (premium /\ ValidateReturned) => ret.value = TRUE

UntrustedBbKey(key) ==
    key.some /\ StartsWith(key.s, bb_) /\ ~TrustedPrefix(key)

\* C5 (amended): for a premium agent validate_premium_access returns True for
\* an absent key, the demo key, a key that starts with bb_prod_ or bb_test_
\* and any key that does not start with bb_; it returns False exactly for a
\* key that starts with bb_ followed by something other than prod_ or test_.
C5_PremiumRejectsOnlyUntrustedBbKey ==
    (premium /\ ValidateReturned) => (ret.value = ~UntrustedBbKey(api_key))

C5_Witness ==
    /\ premium
    /\ ValidateReturned
    /\ UntrustedBbKey(api_key)
    /\ ret.value = FALSE

\* C6: on a free-tier agent, five validate_premium_access calls in a row with
\* no other operation in between include at least one that returns False.
C6_FreeValidateDeniedWithinFive ==
    (~premium /\ ValidateReturned /\ streak >= 5) => ret.denied

\* C7: when the sandbox was requested and its initialization failed, every
\* granted orchestrate_research call returns a full record without a
\* docker_testing section, and with an execution_plan on a premium agent.
C7_FailedSandboxIsSkipped ==
    (docker_requested /\ init_result = "failed" /\ OrchestrateReturned /\ ret.granted) =>
        /\ IsFullRecord(ret.value)
        /\ "docker_testing" \notin DOMAIN ret.value
        /\ (premium => "execution_plan" \in DOMAIN ret.value)

C7_Witness ==
    /\ docker_requested
    /\ init_result = "failed"
    /\ docker_env.container = "created"
    /\ premium
    /\ OrchestrateReturned
    /\ ret.granted
    /\ ret.value.vulnerability_count > 0
    /\ "execution_plan" \in DOMAIN ret.value

ZeroEstimate == [min |-> <<"$", 0>>, max |-> <<"$", 0>>, confidence |-> "low"]

\* C8: a granted call whose analysis payload has no Findings reports the
\* estimate min "$0", max "$0", confidence "low", and that is the case
\* whenever no requested category names one of the four modules.
C8_ZeroFindingsZeroEstimate ==
    (OrchestrateReturned /\ ret.granted) =>
        /\ (ret.value.analysis_data.vulnerabilities = <<>>
              => ret.value.estimated_bounty_range = ZeroEstimate)
        /\ (SelectSeq(ret.vuln_types, IsModuleName) = <<>>
              => /\ ret.value.vulnerability_count = 0
                 /\ ret.value.estimated_bounty_range = ZeroEstimate)

C8_Witness ==
    /\ OrchestrateReturned
    /\ ret.granted
    /\ ret.vuln_types = <<"xss", "xss">>
    /\ ret.value.estimated_bounty_range = ZeroEstimate

SaveReturned == ret.op = "save_session"

C9_WitnessEmpty ==
    /\ SaveReturned
    /\ Len(session_log) = 0
    /\ ~ret.arg.given

BurpReturned == ret.op = "generate_burp_payloads"

\* C10: the Burp-payload generator returns a record with exactly the keys
\* intruder_payload, repeater_template and methodology for every category,
\* and for category idor the intruder_payload text contains the parameter
\* name as a substring.
C10_IdorPayloadNamesParameter ==
    BurpReturned =>
        /\ DOMAIN ret.value = {"intruder_payload", "repeater_template", "methodology"}
        /\ (ret.vuln_type = idor => Contains(ret.value.intruder_payload, ret.parameter))

C10_Witness ==
    /\ BurpReturned
    /\ ret.vuln_type = idor
    /\ ret.parameter = user_id
    /\ Contains(ret.value.intruder_payload, user_id)


\* a direct adapter call has returned
CallReturned == ret.op = "call"

\* C11: of two successive calls on the same adapter, the second lookup starts at
\* least 2 seconds after the previous call to that capability
C11_SecondLookupWaitsTwoSeconds ==
    (CallReturned /\ ret.previous.some) => ret.started - ret.previous.at >= 2

\* the api_source of the canned response of a capability name
CannedSource(tool_name) ==
    IF tool_name \in {"perplexity", "github_search"} THEN "mock_enhanced"
    ELSE IF tool_name = "brave_search" THEN "simulated_search"
    ELSE "fallback"

\* C12: an adapter call never raises, makes at most one live request, and when
\* that request raises, times out or is answered with a non-200 status it returns
\* the canned response of its capability name (the generic fallback record for
\* any other name)
C12_LookupFailureNeverSurfaces ==
    CallReturned =>
        /\ ~ret.raised
        /\ "exception" \notin DOMAIN ret.value
        /\ ret.requests <= 1
        /\ ret.net \in FailingNetworks =>
              /\ "api_source" \in DOMAIN ret.value
              /\ ret.value.api_source = CannedSource(tools[ret.adapter].tool_name)

C12_Witness ==
    /\ CallReturned
    /\ ret.adapter = "github"
    /\ ret.net \in FailingNetworks
    /\ ret.net.github.fault = "timeout"
    /\ ret.requests = 1
    /\ ret.value.total_count = 45


\* C13: a granted call's record has execution_plan exactly when the agent is
\* premium, and docker_testing exactly when the agent is premium and the sandbox
\* was requested and initialized; a free-tier record has neither
C13_SectionsFollowTier ==
    (OrchestrateReturned /\ ret.granted) =>
        /\ ("execution_plan" \in DOMAIN ret.value) <=> premium
        /\ ("docker_testing" \in DOMAIN ret.value) <=>
              (premium /\ docker_requested /\ init_result = "ok")
        /\ ~premium => DOMAIN ret.value = RecordKeys

C13_Witness ==
    /\ ~premium
    /\ docker_requested
    /\ init_result = "ok"
    /\ docker_env.container = "running"
    /\ OrchestrateReturned
    /\ ret.granted
    /\ ret.value.vulnerability_count > 0
    /\ "execution_plan" \notin DOMAIN ret.value
    /\ "docker_testing" \notin DOMAIN ret.value

C13_WitnessSandbox ==
    /\ premium
    /\ init_result = "ok"
    /\ OrchestrateReturned
    /\ ret.granted
    /\ "docker_testing" \in DOMAIN ret.value


\* C14: a denied call returns a record whose only field is error and has no
\* other effect: no adapter is called, no research module runs, nothing runs in
\* the sandbox and the session log is unchanged
C14_DeniedCallHasNoEffect ==
    [][(ret'.op = "orchestrate_research" /\ calls' # calls /\ ~ret'.granted) =>
          /\ DOMAIN ret'.value = {"error"}
          /\ session_log' = session_log
          /\ lookups' = lookups
          /\ tools' = tools
          /\ ret'.modules_run = <<>>
          /\ ret'.sandbox_runs = 0
          /\ docker_env' = docker_env
          /\ files' = files]_vars

C14_Witness ==
    /\ premium
    /\ UntrustedBbKey(api_key)
    /\ init_result = "ok"
    /\ OrchestrateReturned
    /\ ~ret.granted
    /\ ret.vuln_types # <<>>
    /\ calls = 2
    /\ session_log = <<>>
    /\ lookups = <<>>


\* the agent has just been constructed with the sandbox requested
SandboxConstructed == ret.op = "init" /\ "fault" \in DOMAIN ret /\ docker_requested

\* C15 as stated: any failure during sandbox setup, a failing tool-install
\* command included, makes initialize_environment report failure and leaves the
\* sandbox flag false
C15_AnySetupFailureReportsFailure ==
    (SandboxConstructed /\ ret.fault # "none") =>
        (init_result = "failed" /\ ~use_docker)

\* C15: a failure obtaining the runtime handle, pulling the image, creating or
\* starting the instance makes initialize_environment report failure, after which
\* the sandbox flag is false and stays false; a failing tool-install command is
\* caught and initialization still succeeds; initialization is never retried
C15_SetupFailureDisablesSandbox ==
    /\ [](SandboxConstructed =>
            /\ ret.fault \in {"from_env", "pull", "create", "start"} =>
                  (init_result = "failed" /\ ~use_docker)
            /\ ret.fault \in {"setup", "none"} =>
                  (init_result = "ok" /\ use_docker
                     /\ docker_env.container = "running"))
    /\ [][/\ ~use_docker => ~use_docker'
          /\ init_result' = init_result
          /\ docker_env.container = "None" => docker_env'.container = "None"]_vars

C15_Witness ==
    /\ SandboxConstructed
    /\ ret.fault = "start"
    /\ init_result = "failed"
    /\ ~use_docker
    /\ docker_env.container = "created"

C15_WitnessSetup ==
    /\ SandboxConstructed
    /\ ret.fault = "setup"
    /\ init_result = "ok"
    /\ use_docker

C15_WitnessLater ==
    /\ docker_requested
    /\ init_result = "failed"
    /\ docker_env.container = "None"
    /\ ~use_docker
    /\ calls = 3
    /\ Len(session_log) = 3


ExecReturned == ret.op = "execute_test"

\* the record of a completed run: exit_code and output of one exec_run
IsRunRecord(r, ops) ==
    /\ {"exit_code", "output"} \subseteq DOMAIN r
    /\ "error" \notin DOMAIN r
    /\ Len(SelectSeq(ops, LAMBDA o : o = "exec_run")) = 1

IsErrorRecord(r) == DOMAIN r = {"error"}

\* staging (writing the temporary file and put_archive) or running raises
StagingOrRunning == {"tempfile_raised", "stage_raised", "run_raised"}

\* C16 as stated: an error record exactly when there is no container handle or
\* staging or running the script raises, and otherwise the exit_code and output
C16_ErrorOnlyWhenStagingOrRunningRaises ==
    ExecReturned =>
        /\ ~ret.raised
        /\ ret.container = "None" =>
              (IsErrorRecord(ret.value) /\ ret.runtime_ops = <<>>)
        /\ (ret.container # "None" /\ ret.fault \in StagingOrRunning) =>
              IsErrorRecord(ret.value)
        /\ (ret.container # "None" /\ ret.fault \notin StagingOrRunning) =>
              IsRunRecord(ret.value, ret.runtime_ops)

\* C16: execute_test never raises; with no container handle it returns an error
\* record without touching the runtime; when any step of its try block raises
\* (writing the temporary file, staging, running, deleting the temporary file,
\* decoding the output) it returns an error record; otherwise it returns the
\* exit_code and output of the single run
C16_ExecuteTestNeverRaises ==
    ExecReturned =>
        /\ ~ret.raised
        /\ "exception" \notin DOMAIN ret.value
        /\ ret.container = "None" =>
              (IsErrorRecord(ret.value) /\ ret.runtime_ops = <<>>)
        /\ (ret.container # "None" /\ ret.fault \in ExecRaises) =>
              IsErrorRecord(ret.value)
        /\ (ret.container # "None" /\ ret.fault \notin ExecRaises) =>
              IsRunRecord(ret.value, ret.runtime_ops)

C16_Witness ==
    /\ ExecReturned
    /\ ret.container = "running"
    /\ ret.fault = "decode_raised"
    /\ ret.runtime_ops = <<"put_archive", "exec_run">>
    /\ IsErrorRecord(ret.value)

C16_WitnessNoContainer ==
    /\ ExecReturned
    /\ ret.container = "None"
    /\ IsErrorRecord(ret.value)

C16_WitnessRun ==
    /\ ExecReturned
    /\ ret.fault = "exit1"
    /\ ret.value.exit_code = 1


CleanupReturned == ret.op = "cleanup"

\* C17: cleanup called while a container exists both stops and removes it and
\* never raises, whatever stop or remove reports; with no container it does nothing
C17_CleanupStopsAndRemoves ==
    CleanupReturned =>
        /\ ~ret.raised
        /\ ret.container # "None" => (ret.stop_called /\ ret.remove_called)
        /\ ret.container = "None" =>
              (~ret.stop_called /\ ~ret.remove_called /\ docker_env.container = "None")


ExitReturned == ret.op = "__exit__"

\* C18: every way of leaving a with-block on the agent, normal or by an exception
\* (one raised by orchestrate_research included), runs the sandbox release exactly
\* once before control leaves the block, and the exception still propagates
C18_ExitReleasesOnceAndPropagates ==
    /\ ExitReturned =>
          /\ scope = "left"
          /\ ret.cleanups = 1
          /\ ~ret.raised
          /\ ret.container # "None" => ret.stop_called
          /\ ret.propagated <=> (ret.exc # "None")
    /\ scope = "left" => ExitReturned \/ OrchestrateReturned

C18_Witness ==
    /\ ExitReturned
    /\ ret.exc = "orchestrate_raised"
    /\ ret.propagated
    /\ ret.cleanups = 1
    /\ ret.container = "running"
    /\ docker_env.container = "removed"
    /\ calls > 0


BountyReturned == ret.op = "estimate_bounty_potential"

\* the stated price table, and the stated factors in tenths
StatedBase(severity) ==
    CASE severity = "CRITICAL" -> 8000
      [] severity = "HIGH" -> 3000
      [] severity = "MEDIUM" -> 800
      [] severity = "LOW" -> 200
      [] OTHER -> 500

StatedMinTenths(severity) ==
    CASE severity = "CRITICAL" -> 7 [] severity = "HIGH" -> 5 [] OTHER -> 3

StatedMaxTenths(severity) ==
    CASE severity = "CRITICAL" -> 15 [] severity = "HIGH" -> 12 [] OTHER -> 8

RECURSIVE StatedSum(_, _)
\* the sum over the list of base times factor, in tenths of a dollar
StatedSum(severities, end) ==
    IF severities = <<>> THEN 0
    ELSE StatedBase(Head(severities))
             * (IF end = "min" THEN StatedMinTenths(Head(severities))
                ELSE StatedMaxTenths(Head(severities)))
           + StatedSum(Tail(severities), end)

\* C19: for a non-empty list of Findings, min and max are "$" and the integer part
\* of the sums of base*minFactor and base*maxFactor over the stated table, and
\* confidence is "medium" exactly when there are more than two Findings
C19_BountyEstimateFollowsTable ==
    (BountyReturned /\ ret.severities # <<>>) =>
        /\ ret.value.min = <<"$", StatedSum(ret.severities, "min") \div 10>>
        /\ ret.value.max = <<"$", StatedSum(ret.severities, "max") \div 10>>
        /\ ret.value.confidence =
              (IF Len(ret.severities) > 2 THEN "medium" ELSE "low")

C19_Witness ==
    /\ BountyReturned
    /\ ret.severities = <<"CRITICAL", "INFO", "LOW">>
    /\ ret.value.min = <<"$", 5810>>
    /\ ret.value.max = <<"$", 12560>>
    /\ ret.value.confidence = "medium"

C19_WitnessLow ==
    /\ BountyReturned
    /\ ret.severities = <<"HIGH", "MEDIUM">>
    /\ ret.value.min = <<"$", 1740>>
    /\ ret.value.confidence = "low"


Uppercase == {"T", "N", "H"}

IsSevere(vuln) == vuln.severity = "HIGH" \/ vuln.severity = "CRITICAL"

ScriptSuffixes ==
    << "_idor_scanner.py", "_auth_bypass_tester.py", "_business_logic_fuzzer.py" >>

\* C20: the execution plan of a premium call has one testing_phases entry per
\* HIGH or CRITICAL Finding, in the order of the Findings, and none for the
\* others; automation_scripts always holds three filenames made of the
\* lower-cased target and a fixed suffix
C20_PlanPhasesAndScripts ==
    (OrchestrateReturned /\ ret.granted /\ premium) =>
        LET plan == ret.value.execution_plan
            severe == SelectSeq(ret.value.analysis_data.vulnerabilities, IsSevere)
        IN  /\ Len(plan.testing_phases) = Len(severe)
            /\ \A i \in 1..Len(severe) :
                  /\ plan.testing_phases[i].phase = <<"Test ", severe[i].title>>
                  /\ plan.testing_phases[i].method = severe[i].poc_template
            /\ Len(plan.automation_scripts) = 3
            /\ \A i \in 1..3 :
                  LET script == plan.automation_scripts[i]
                  IN  /\ Len(script) = Len(ret.target) + 1
                      /\ script[Len(script)] = ScriptSuffixes[i]
                      /\ \A j \in 1..Len(ret.target) :
                            /\ script[j] \notin Uppercase
                            /\ script[j] = LowerChar(ret.target[j])

C20_Witness ==
    /\ premium
    /\ OrchestrateReturned
    /\ ret.granted
    /\ ret.vuln_types = <<"business_logic", "auth_bypass", "idor">>
    /\ ret.target[1] \in Uppercase
    /\ Len(ret.value.execution_plan.testing_phases) = 2
    /\ ret.value.vulnerability_count = 3

C20_WitnessNoFindings ==
    /\ premium
    /\ OrchestrateReturned
    /\ ret.granted
    /\ ret.vuln_types = <<"xss">>
    /\ ret.value.execution_plan.testing_phases = <<>>
    /\ Len(ret.value.execution_plan.automation_scripts) = 3


RECURSIVE ExpectedConfirmed(_, _)
\* the titles of the Findings whose run ended with exit code 0, in order
ExpectedConfirmed(severe, outs) ==
    IF severe = <<>> THEN <<>>
    ELSE (IF Head(outs) = "exit0" THEN <<Head(severe).title>> ELSE <<>>)
           \o ExpectedConfirmed(Tail(severe), Tail(outs))

\* C21: the sandbox stage makes one execute_test call per HIGH or CRITICAL
\* Finding, in order; tests_executed is that number and equals the number of
\* testing phases; vulnerabilities_confirmed holds exactly the Findings whose run
\* returned exit_code 0, so it is never longer than tests_executed
C21_OneRunPerSevereFinding ==
    (OrchestrateReturned /\ ret.granted /\ "docker_testing" \in DOMAIN ret.value) =>
        LET docker_results == ret.value.docker_testing
            severe == SelectSeq(ret.value.analysis_data.vulnerabilities, IsSevere)
            confirmed == docker_results.vulnerabilities_confirmed
        IN  /\ ret.sandbox_runs = Len(severe)
            /\ Len(ret.outs) = Len(severe)
            /\ docker_results.tests_executed = Len(severe)
            /\ docker_results.tests_executed =
                  Len(ret.value.execution_plan.testing_phases)
            /\ [i \in 1..Len(confirmed) |-> confirmed[i].vulnerability] =
                  ExpectedConfirmed(severe, ret.outs)
            /\ Len(confirmed) <= docker_results.tests_executed

C21_Witness ==
    /\ OrchestrateReturned
    /\ ret.granted
    /\ ret.vuln_types = <<"idor", "business_logic", "auth_bypass">>
    /\ ret.outs = <<"exit1", "exit0">>
    /\ ret.value.docker_testing.tests_executed = 2
    /\ Len(ret.value.docker_testing.vulnerabilities_confirmed) = 1

C21_WitnessError ==
    /\ OrchestrateReturned
    /\ ret.granted
    /\ ret.outs = <<"raised", "raised", "exit0">>
    /\ ret.value.docker_testing.tests_executed = 3
    /\ Len(ret.value.docker_testing.vulnerabilities_confirmed) = 1


ThreeAdapters == {"perplexity", "github", "brave"}

\* the recon stage of the call in progress is over
ReconOver == run.pc \in {"analysis", "plan", "sandbox", "finish"}

\* C22: whatever the interleaving and completion order of the three adapter
\* calls, the recon stage returns only after all three have completed, its
\* payload has exactly the keys threat_intel, tools_available and public_intel
\* with the responses of perplexity, github_search and brave_search, and a step
\* of one adapter's call touches nothing of the other two
C22_ReconIsForkJoin ==
    /\ [](ReconOver =>
            /\ \A k \in ThreeAdapters : run.futures[k].state = "done"
            /\ DOMAIN run.recon_data =
                  {"threat_intel", "tools_available", "public_intel"}
            /\ run.recon_data.threat_intel =
                  generate_mock_response("perplexity",
                      ReconParams("perplexity", run.target, run.vuln_types), run.net)
            /\ run.recon_data.tools_available =
                  generate_mock_response("github_search",
                      ReconParams("github", run.target, run.vuln_types), run.net)
            /\ run.recon_data.public_intel =
                  generate_mock_response("brave_search",
                      ReconParams("brave", run.target, run.vuln_types), run.net)
            /\ run.recon_data = recon_layer(run.target, run.vuln_types, run.net))
    /\ [][(run.pc = "recon" /\ run'.pc = "recon") =>
            \A k \in ThreeAdapters :
                (run'.futures[k] # run.futures[k]) =>
                    \A j \in ThreeAdapters \ {k} :
                        /\ run'.futures[j] = run.futures[j]
                        /\ tools'[j] = tools[j]
                        /\ j \in DOMAIN lookups =>
                              (j \in DOMAIN lookups' /\ lookups'[j] = lookups[j])
                        /\ j \notin DOMAIN lookups => j \notin DOMAIN lookups']_vars

\* brave finished first and perplexity last, and the stage has returned
C22_Witness ==
    /\ ReconOver
    /\ Len(run.trace) >= 8
    /\ run.trace[2] = <<"call_start", "brave">>
    /\ run.trace[3] = <<"call_done", "brave">>
    /\ run.trace[7] = <<"call_done", "perplexity">>
    /\ run.trace[8] = <<"recon_joined">>
    /\ run.recon_data.public_intel.api_source = "simulated_search"


\* the position of a kind of event in the order of the stages
Rank(ev) ==
    CASE ev[1] = "access_check" -> 0
      [] ev[1] \in {"call_start", "call_done"} -> 1
      [] ev[1] = "recon_joined" -> 2
      [] ev[1] = "module" -> 3
      [] ev[1] = "analysis_done" -> 4
      [] ev[1] = "plan_built" -> 5
      [] ev[1] \in {"sandbox_run", "sandbox_done"} -> 6
      [] ev[1] = "estimate" -> 7
      [] ev[1] = "appended" -> 8
      [] ev[1] = "returned" -> 9
      [] OTHER -> 10

Count(trace, kind) == Cardinality({i \in 1..Len(trace) : trace[i][1] = kind})

\* a granted call has returned its record
StagedReturned == OrchestrateReturned /\ ret.granted /\ ~ret.raised

\* C23: in a granted call the access check precedes every adapter call, the three
\* recon calls complete before any research module runs, the modules complete
\* before the execution plan is built, the plan is built before any sandbox
\* execution, and the record is appended only after all stages and the estimate,
\* immediately before it is returned
C23_StagesRunInOrder ==
    LET trace == run.trace
    IN  /\ trace # <<>> => trace[1] = <<"access_check">>
        /\ \A i, j \in 1..Len(trace) : i < j => Rank(trace[i]) <= Rank(trace[j])
        /\ \A j \in 1..Len(trace) :
              /\ trace[j][1] = "module" => Count(SubSeq(trace, 1, j), "call_done") = 3
              /\ trace[j][1] = "sandbox_run" =>
                    Count(SubSeq(trace, 1, j), "plan_built") = 1
              /\ trace[j][1] = "appended" =>
                    (j = Len(trace) - 1 /\ trace[j - 1] = <<"estimate">>
                       /\ trace[j + 1] = <<"returned">>)
        /\ StagedReturned =>
              /\ trace[Len(trace)] = <<"returned">>
              /\ Count(trace, "call_done") = 3
              /\ Count(trace, "module") = Len(SelectSeq(ret.vuln_types, IsModuleName))
              /\ Count(trace, "plan_built") = (IF premium THEN 1 ELSE 0)
              /\ Count(trace, "sandbox_run") = ret.sandbox_runs
              /\ session_log[Len(session_log)] = ret.value
              /\ ret.value =
                    orchestrate_research(premium, use_docker, docker_env, session_id,
                        ret.value.timestamp, ret.target, ret.vuln_types, Offline,
                        ret.outs)

C23_Witness ==
    /\ premium
    /\ StagedReturned
    /\ Len(session_log) = 2
    /\ Count(run.trace, "module") = 3
    /\ Count(run.trace, "sandbox_run") = 2
    /\ "docker_testing" \in DOMAIN ret.value


\* the step is a granted orchestrate_research call
GrantedStep ==
    /\ calls' = calls + 1
    /\ ret'.op = "orchestrate_research"
    /\ ret'.granted

\* C24: the session log is append-only: a granted call appends exactly the
\* record it returns at the end, and no operation of the agent removes, reorders
\* or alters a record already in the log, so the log grows by one with every
\* granted call and not otherwise
C24_SessionLogAppendOnly ==
    [][/\ Len(session_log') >= Len(session_log)
       /\ SubSeq(session_log', 1, Len(session_log)) = session_log
       /\ GrantedStep =>
             (/\ Len(session_log') = Len(session_log) + 1
              /\ session_log'[Len(session_log')] = ret'.value)
       /\ ~GrantedStep => session_log' = session_log]_vars

C24_Witness ==
    /\ ret.op = "generate_report"
    /\ ret.index = 1
    /\ Len(session_log) = 2
    /\ docker_env.container = "removed"
    /\ files # <<>>


\* a free-tier call has just been denied
FreeDenied == ~premium /\ OrchestrateReturned /\ ~ret.granted

\* calls counts the orchestrate_research calls made and the log the granted
\* ones, so some call of this free-tier agent has been denied
DeniedBefore == ~premium /\ calls > Len(session_log)

\* the step is an orchestrate_research call
OrchestrateStep == calls' = calls + 1 /\ ret'.op = "orchestrate_research"

\* C25: once a free-tier orchestrate_research call has been denied, every later
\* one is denied too, whatever other operations are called in between; a
\* free-tier log never holds more than 3 records
C25_FreeDenialIsPermanent ==
    /\ [](~premium => Len(session_log) <= 3)
    /\ [][(DeniedBefore /\ OrchestrateStep) =>
            (~ret'.granted /\ session_log' = session_log)]_vars
    /\ [][DeniedBefore => DeniedBefore']_vars

C25_Witness ==
    /\ FreeDenied
    /\ calls = 5
    /\ Len(session_log) = 3
    /\ files # <<>>
    /\ docker_env.container = "removed"


Popular(repo) == repo.stars > 50

\* C26: tools_recommended is the subsequence, in order, of the repositories with
\* strictly more than 50 stars, each with relevance "high" when it has strictly
\* more than 200 stars and "medium" otherwise; no repositories, no recommendations
C26_ToolsAboveFiftyStars ==
    (OrchestrateReturned /\ ret.granted) =>
        LET repos == ret.value.recon_data.tools_available.repositories
            picked == SelectSeq(repos, Popular)
            recommended == ret.value.analysis_data.tools_recommended
        IN  /\ Len(recommended) = Len(picked)
            /\ \A i \in 1..Len(picked) :
                  /\ recommended[i].name = picked[i].name
                  /\ recommended[i].stars = picked[i].stars
                  /\ recommended[i].description = picked[i].description
                  /\ recommended[i].relevance =
                        (IF picked[i].stars > 200 THEN "high" ELSE "medium")
            /\ \A i \in 1..Len(recommended) : recommended[i].stars # 50
            /\ repos = <<>> => recommended = <<>>

\* live repositories with 50, 51 and 200 stars
C26_Witness ==
    /\ OrchestrateReturned
    /\ ret.granted
    /\ ret.value.recon_data.tools_available.api_source = "github_public"
    /\ Len(ret.value.recon_data.tools_available.repositories) = 3
    /\ ret.value.recon_data.tools_available.repositories[1].stars = 50
    /\ Len(ret.value.analysis_data.tools_recommended) = 2
    /\ ret.value.analysis_data.tools_recommended[2].stars = 200
    /\ ret.value.analysis_data.tools_recommended[2].relevance = "medium"

C26_WitnessHigh ==
    /\ OrchestrateReturned
    /\ ret.granted
    /\ ret.value.analysis_data.tools_recommended[1].stars = 234
    /\ ret.value.analysis_data.tools_recommended[1].relevance = "high"

C26_WitnessEmpty ==
    /\ OrchestrateReturned
    /\ ret.granted
    /\ ret.value.recon_data.tools_available.api_source = "github_public"
    /\ ret.value.recon_data.tools_available.repositories = <<>>
    /\ ret.value.analysis_data.tools_recommended = <<>>


\* the step is a validate_premium_access call
ValidateStep == streak' = streak + 1 /\ ret'.op = "validate_premium_access"

C27_WitnessCallAfterChecks ==
    /\ ~premium
    /\ OrchestrateReturned
    /\ ret.granted
    /\ Len(session_log) = 3


\* a stage of a granted call raised and the exception reached the caller
RaisedOut == OrchestrateReturned /\ ret.granted /\ ret.raised

\* C28: when a stage of a granted call raises (recon, analysis, execution plan or
\* sandbox), the exception propagates to the caller and the session log is left
\* as it was, so the failed call records nothing and uses no free-tier quota
C28_RaisingCallLeavesLogUnchanged ==
    RaisedOut =>
        /\ ret.stage \in {"recon", "analysis", "plan", "sandbox"}
        /\ run.pc = "idle"
        /\ run.trace[Len(run.trace)] = <<"raised", ret.stage>>
        /\ Count(run.trace, "appended") = 0
        /\ Count(run.trace, "returned") = 0
        /\ session_log = ret.log_before
        /\ validate_premium_access(premium, api_key, session_log) =
              validate_premium_access(premium, api_key, ret.log_before)

C28_Witness ==
    /\ RaisedOut
    /\ premium
    /\ ret.stage = "sandbox"
    /\ Count(run.trace, "sandbox_run") = 1
    /\ calls = 2
    /\ Len(session_log) = 1

C28_WitnessRecon ==
    /\ RaisedOut
    /\ ~premium
    /\ ret.stage = "recon"
    /\ session_log = <<>>


\* the sandbox instance has been stopped and removed by cleanup()
Released == docker_env.exists /\ docker_env.container = "removed"

\* C29: once cleanup() has released the sandbox instance, a later granted
\* orchestrate_research call runs no test on it: the sandbox stage is skipped
\* and the record has no docker_testing section.  cleanup() resets neither
\* use_docker nor docker_env, so the statement fails.
C29_NoTestAfterRelease ==
    (OrchestrateReturned /\ ret.granted /\ Released) =>
        /\ ret.sandbox_runs = 0
        /\ "docker_testing" \notin DOMAIN ret.value


\* C30: every temporary script file execute_test creates on the host has been
\* deleted when execute_test returns, on every return path.  The deletion is
\* skipped when staging or running the script raises, so the statement fails.
C30_NoTempFileLeft ==
    (ExecReturned /\ ret.fault \in {"exit0", "exit1", "stage_raised", "run_raised"}) =>
        ret.temp_files_left = 0

============================================================================
